---- MODULE Spec2Model ----
(***************************************************************************)
(* SyncedCron: several SyncedCron instances of one server process that     *)
(* share one history collection (the process-wide collectionCache), their  *)
(* job registries and lifecycles, the scheduleJob timer loop of every      *)
(* entry, and the executeJob coroutine of every firing.                    *)
(*                                                                         *)
(* Time is the wall clock in milliseconds since the epoch, read in UTC.    *)
(* One step of the model is one run-to-completion piece of the JavaScript  *)
(* code: a public method up to its first await, a continuation after an    *)
(* await, a timer callback, or the store applying one request.             *)
(***************************************************************************)
EXTENDS Integers, Sequences, FiniteSets, TLC

\* ------------------------------------------------------------------------
\* Bounds of the model
\* ------------------------------------------------------------------------
StartTime == 59500
TickMs == 1000
MaxTicks == 3
MaxCalls == 5
MaxFirings == 2
MaxPendingStarts == 2
TimeoutMs == 1000
MaxFaults == 2

\* ------------------------------------------------------------------------
\* Program constants
\* ------------------------------------------------------------------------
maxDelay == 2147483647
RetryDelay == 100
ErrorRetryDelay == 5000

Instances == {"i1", "i2", "i3"}

ScheduleError == -1
NoTimer == 0
NoDoc == 0

\* No gracefulShutdown() call is suspended; no stand-alone timer loop exists.
NoShutdown == [pending |-> FALSE, waiting |-> {}, deadline |-> 0]

NoLoop == [impl |-> "none"]

NoCalc == [op |-> "none"]

\* The job configurations callers register (JobConfig).  The job body and
\* the onError callback are opaque: the body's outcome is chosen when it
\* finishes, onError is recorded when it is invoked.
JobA ==
  [name |-> "a",
   schedule |-> [type |-> "every", every |-> 2, unit |-> "seconds", aligned |-> FALSE],
   persist |-> TRUE, hasOnError |-> TRUE]

JobB ==
  [name |-> "b",
   schedule |-> [type |-> "every", every |-> 1, unit |-> "minutes", aligned |-> TRUE],
   persist |-> FALSE, hasOnError |-> FALSE]

Catalog == {JobA, JobB}

Names == {c.name : c \in Catalog}

\* A job configuration whose schedule is ill-formed: `at: "25:00"`.
JobX ==
  [name |-> "b",
   schedule |-> [type |-> "at", at |-> [hour |-> 25, minute |-> 0]],
   persist |-> FALSE, hasOnError |-> FALSE]

\* The deployments checked: which instances the process has constructed and
\* which job configurations their callers register.
Deployments ==
  {[instances |-> {"i1", "i2", "i3"}, catalog |-> {JobA}],
   [instances |-> {"i1", "i2"}, catalog |-> {JobB}],
   [instances |-> {"i1"}, catalog |-> {JobA, JobB}]}

VARIABLES
  deployment,       \* the deployment of this behaviour (never changes)
  now,              \* wall clock, ms
  collectionCache,  \* the process-wide cache holds the collection
  uniqueIndex,      \* unique index {intendedAt, name}: none/building/ready/failed
  docs,             \* the history collection, in insertion order (_id = position)
  running,          \* this.running
  initPromise,      \* this.initPromise: unset/pending/resolved/rejected
  collection,       \* this.collection is set
  pendingStarts,    \* start() calls suspended at `await ensureInitialized()`
  entries,          \* this.entries (a Map: insertion-ordered)
  timers,           \* live Timer objects created by scheduleJob
  runningJobs,      \* executeJob coroutines in flight
  calls,            \* number of public method calls made so far
  firings,          \* per instance and job name: firings begun
  bodyCount,        \* per instance and job name: job bodies invoked
  bodyLog,          \* (instance, name, intendedAt) of every body invoked
  bodyFails,        \* per (instance, name, intendedAt): bodies that failed
  onErrorCalls,     \* per (instance, name, intendedAt): onError invocations
  failedDocs,       \* ids of records whose job body failed
  afterPause,       \* a call of pause() returned and start() was not called since
  afterStop,        \* stop() resolved and nothing was added since
  afterPauseJob,    \* "paused": pauseJob(name) returned on a running instance and
                    \* the job was not resumed since; "resumed": the last
                    \* resumeJob(name) found the job paused
  afterRemove,      \* remove(name) resolved and name was not added since
  lastCall,         \* how the most recent public method call ended or was answered
  shutdown,         \* the gracefulShutdown() call suspended at `await Promise.race`
  rejected,         \* (instance, name, intendedAt) of every executeJob promise that rejected
  faults,           \* number of requests the store has answered with an error
                    \* other than duplicate-key (used by SpecFaults only)
  loop,             \* a timer loop run on its own (used by SpecLoop only)
  calc              \* a call of a function on its own: a schedule function
                    \* (SpecSchedule), the executor (SpecExecutor), or the
                    \* most recent query of an instance (SpecQueries)

vars ==
  <<deployment, now, collectionCache, uniqueIndex, docs, running, initPromise, collection,
    pendingStarts, entries, timers, runningJobs, calls, firings, bodyCount,
    bodyLog, bodyFails, onErrorCalls, failedDocs, afterPause, afterStop,
    afterPauseJob, afterRemove, lastCall, shutdown, rejected, faults, loop, calc>>

faultVars == <<rejected, faults>>
storeVars == <<collectionCache, uniqueIndex, docs>>
initVars == <<initPromise, collection, pendingStarts>>
execVars == <<runningJobs, firings, bodyCount, bodyLog, bodyFails, onErrorCalls, failedDocs>>

\* ------------------------------------------------------------------------
\* Helpers
\* ------------------------------------------------------------------------
Min(a, b) == IF a < b THEN a ELSE b

CeilDiv(a, b) == (a + b - 1) \div b

\* Smallest positive number that identifies none of the objects in S.
NewId(S) == CHOOSE k \in 1..(Cardinality(S) + 1) : \A t \in S : t.id # k

setMilliseconds0_Keep(t) == t

\* Date.setMilliseconds(0)
setMilliseconds0(t) == t - (t % 1000)

EndTime == StartTime + MaxTicks * TickMs

\* The whole seconds a firing of the modelled window can be keyed by.
KeyTimes == {t \in (StartTime - 1000)..EndTime : t % 1000 = 0}

Firing(i, n, at) == <<i, n, at>>

Bump(f, key) == [f EXCEPT ![key] = @ + 1]

\* ------------------------------------------------------------------------
\* Interval scheduler (UTC)
\* ------------------------------------------------------------------------
getIntervalMs(every, unit) ==
  CASE unit = "seconds" -> every * 1000
    [] unit = "minutes" -> every * 60 * 1000
    [] unit = "hours" -> every * 60 * 60 * 1000
    [] unit = "days" -> every * 24 * 60 * 60 * 1000

getDriftInterval(every, unit, from) == from + getIntervalMs(every, unit)

getAlignedInterval(every, unit, from) ==
  LET next == from - (from % 60000)          \* setSeconds(0, 0)
      hourStart == next - (next % 3600000)
      dayStart == next - (next % 86400000)
  IN CASE unit = "seconds" ->
            \* the seconds were just zeroed, so currentSec is always 0
            LET currentSec == (next % 60000) \div 1000
                alignedSec == CeilDiv(currentSec + 1, every) * every
            IN next + alignedSec * 1000
       [] unit = "minutes" ->
            LET currentMin == (next % 3600000) \div 60000
                alignedMin == CeilDiv(currentMin + 1, every) * every
            IN IF alignedMin >= 60
                 THEN hourStart + 3600000 + (alignedMin % 60) * 60000
                 ELSE hourStart + alignedMin * 60000
       [] unit = "hours" ->
            LET currentHour == (hourStart % 86400000) \div 3600000
                alignedHour == CeilDiv(currentHour + 1, every) * every
            IN IF alignedHour >= 24
                 THEN dayStart + 86400000 + (alignedHour % 24) * 3600000
                 ELSE dayStart + alignedHour * 3600000
       [] unit = "days" -> dayStart + every * 86400000

\* `at` is carried as its parsed hour and minute.
getNextDailyTime(at, from) ==
  IF at.hour < 0 \/ at.hour > 23 \/ at.minute < 0 \/ at.minute > 59
    THEN ScheduleError
    ELSE LET dayStart == from - (from % 86400000)
             next == dayStart + at.hour * 3600000 + at.minute * 60000
         IN IF next <= from THEN next + 86400000 ELSE next

getNextIntervalTime(schedule, from) ==
  IF schedule.type = "at"
    THEN getNextDailyTime(schedule.at, from)
    ELSE IF schedule.aligned
           THEN getAlignedInterval(schedule.every, schedule.unit, from)
           ELSE getDriftInterval(schedule.every, schedule.unit, from)

\* Schedule router; a schedule of no known variant throws.
getNextScheduledTime(schedule, t) ==
  IF schedule.type \in {"every", "at"}
    THEN getNextIntervalTime(schedule, t)
    ELSE ScheduleError

\* ------------------------------------------------------------------------
\* scheduleJob: one pass of scheduleNext for the Timer object `id`
\* ------------------------------------------------------------------------
scheduleNext(cfg, id, t) ==
  LET nextRun == getNextScheduledTime(cfg.schedule, t)
      delay == nextRun - t
      actualDelay == Min(delay, maxDelay)
  IN IF nextRun = ScheduleError
       THEN [id |-> id, cfg |-> cfg, kind |-> "errorRetry", due |-> t + ErrorRetryDelay, nextRun |-> 0]
       ELSE IF delay <= 0
              THEN [id |-> id, cfg |-> cfg, kind |-> "retry", due |-> t + RetryDelay, nextRun |-> 0]
              ELSE [id |-> id, cfg |-> cfg,
                    kind |-> IF actualDelay < delay THEN "recheck" ELSE "fire",
                    due |-> t + actualDelay, nextRun |-> nextRun]

\* ------------------------------------------------------------------------
\* Registry helpers: the entries of one instance are a sequence of
\* [name, cfg, paused, timer] in Map insertion order.
\* ------------------------------------------------------------------------
Has(es, n) == \E k \in 1..Len(es) : es[k].name = n

Idx(es, n) == CHOOSE k \in 1..Len(es) : es[k].name = n

Without(es, n) == SelectSeq(es, LAMBDA e : e.name # n)

EntryTimerIds(es) == {es[k].timer : k \in 1..Len(es)} \ {NoTimer}

\* scheduleEntry on the registry state st = [ent, tim, threw] of one instance
skipsPaused_Never(entry) == FALSE

\* Whether scheduleEntry leaves the entry alone (`if (entry.paused) return`).
skipsPaused(entry) == entry.paused

scheduleEntry(st, k, t) ==
  IF st.threw \/ skipsPaused(st.ent[k])
    THEN st
    ELSE LET id == NewId(st.tim)
         IN [ent |-> [st.ent EXCEPT ![k].timer = id],
             tim |-> st.tim \cup {scheduleNext(st.ent[k].cfg, id, t)},
             threw |-> getNextScheduledTime(st.ent[k].cfg.schedule, t) = ScheduleError]

RECURSIVE scheduleAll(_, _, _)
scheduleAll(st, k, t) ==
  IF k > Len(st.ent) THEN st ELSE scheduleAll(scheduleEntry(st, k, t), k + 1, t)

\* entry.timer.clear(); entry.timer = undefined, for every entry
RECURSIVE clearAll(_, _)
clearAll(es, k) ==
  IF k > Len(es) THEN es ELSE clearAll([es EXCEPT ![k].timer = NoTimer], k + 1)

\* A continuation of an already settled promise runs before any timer or
\* I/O callback of the process.
MicrotasksDrained ==
  \A i \in Instances :
    /\ pendingStarts[i] > 0 => initPromise[i] = "pending"
    /\ shutdown[i].pending => shutdown[i].waiting # {}

TotalFirings ==
  LET RECURSIVE Sum(_)
      Sum(S) == IF S = {} THEN 0
                ELSE LET p == CHOOSE p \in S : TRUE
                     IN firings[p[1]][p[2]] + Sum(S \ {p})
  IN Sum(Instances \X Names)

\* ------------------------------------------------------------------------
\* Initial state: every instance just constructed, nothing stored
\* ------------------------------------------------------------------------
Constructed ==
  /\ now = StartTime
  /\ collectionCache = FALSE
  /\ uniqueIndex = "none"
  /\ docs = <<>>
  /\ running = [i \in Instances |-> FALSE]
  /\ initPromise = [i \in Instances |-> "unset"]
  /\ collection = [i \in Instances |-> FALSE]
  /\ pendingStarts = [i \in Instances |-> 0]
  /\ entries = [i \in Instances |-> <<>>]
  /\ timers = [i \in Instances |-> {}]
  /\ runningJobs = [i \in Instances |-> {}]
  /\ calls = 0
  /\ firings = [i \in Instances |-> [n \in Names |-> 0]]
  /\ bodyCount = [i \in Instances |-> [n \in Names |-> 0]]
  /\ bodyLog = {}
  /\ bodyFails = [f \in Instances \X Names \X KeyTimes |-> 0]
  /\ onErrorCalls = [f \in Instances \X Names \X KeyTimes |-> 0]
  /\ failedDocs = {}
  /\ afterPause = [i \in Instances |-> FALSE]
  /\ afterStop = [i \in Instances |-> FALSE]
  /\ afterPauseJob = [i \in Instances |-> [n \in Names |-> "no"]]
  /\ afterRemove = [i \in Instances |-> [n \in Names |-> FALSE]]
  /\ lastCall = "none"
  /\ shutdown = [i \in Instances |-> NoShutdown]
  /\ rejected = {}
  /\ faults = 0

Init ==
  /\ deployment \in Deployments
  /\ Constructed
  /\ loop = NoLoop
  /\ calc = NoCalc

\* ------------------------------------------------------------------------
\* Registry and lifecycle (SyncedCron public methods)
\* ------------------------------------------------------------------------
Reg(i) == [ent |-> entries[i], tim |-> timers[i], threw |-> FALSE]

SchedulesNow_Always(i) == TRUE

\* Whether add() and resumeJob() hand the entry to scheduleEntry.
SchedulesNow(i) == running[i]

rejectsExisting_Never(es, n) == FALSE

\* Whether add() throws JobAlreadyExistsError (`if (this.entries.has(name))`).
rejectsExisting(es, n) == Has(es, n)

\* Map.set: a new key is appended, an existing key keeps its position.
setEntry(es, e) ==
  IF Has(es, e.name) THEN [es EXCEPT ![Idx(es, e.name)] = e] ELSE Append(es, e)

\* add(config): the name is accepted.  The entry is registered, and on a
\* running instance scheduled; an error scheduleEntry throws leaves add().
Add(i, cfg) ==
  /\ calls < MaxCalls
  /\ ~rejectsExisting(entries[i], cfg.name)
  /\ LET es == setEntry(entries[i], [name |-> cfg.name, cfg |-> cfg, paused |-> FALSE, timer |-> NoTimer])
         st == [ent |-> es, tim |-> timers[i], threw |-> FALSE]
         st2 == IF SchedulesNow(i) THEN scheduleEntry(st, Idx(es, cfg.name), now) ELSE st
     IN /\ entries' = [entries EXCEPT ![i] = st2.ent]
        /\ timers' = [timers EXCEPT ![i] = st2.tim]
        /\ lastCall' = IF st2.threw THEN "ScheduleError" ELSE "ok"
  /\ calls' = calls + 1
  /\ afterStop' = [afterStop EXCEPT ![i] = FALSE]
  /\ afterRemove' = [afterRemove EXCEPT ![i][cfg.name] = FALSE]
  /\ UNCHANGED <<loop, calc, faultVars, shutdown, deployment, now, storeVars, initVars, running, execVars, afterPause, afterPauseJob>>

\* add(config): the name is registered already, add() throws
AddExisting(i, cfg) ==
  /\ calls < MaxCalls
  /\ rejectsExisting(entries[i], cfg.name)
  /\ calls' = calls + 1
  /\ lastCall' = "JobAlreadyExists"
  /\ UNCHANGED <<loop, calc, faultVars, shutdown, deployment, now, storeVars, initVars, running, entries, timers,
                 execVars, afterPause, afterStop, afterPauseJob, afterRemove>>

\* remove(jobName), pauseJob(jobName), resumeJob(jobName): no entry of
\* that name, the method throws JobNotFoundError
JobNotFound(i, n) ==
  /\ calls < MaxCalls
  /\ ~Has(entries[i], n)
  /\ calls' = calls + 1
  /\ lastCall' = "JobNotFound"
  /\ UNCHANGED <<loop, calc, faultVars, shutdown, deployment, now, storeVars, initVars, running, entries, timers,
                 execVars, afterPause, afterStop, afterPauseJob, afterRemove>>

RemoveMissing(i, n) == JobNotFound(i, n)

PauseJobMissing(i, n) == JobNotFound(i, n)

ResumeJobMissing(i, n) == JobNotFound(i, n)

isJobPaused_Unknown(i, n) == ~Has(entries[i], n) \/ entries[i][Idx(entries[i], n)].paused

\* isJobPaused(jobName): `entry?.paused ?? false`
isJobPaused(i, n) == Has(entries[i], n) /\ entries[i][Idx(entries[i], n)].paused

\* remove(jobName): the job is registered
Remove(i, n) ==
  /\ calls < MaxCalls
  /\ Has(entries[i], n)
  /\ LET e == entries[i][Idx(entries[i], n)]
     IN /\ timers' = [timers EXCEPT ![i] = {t \in @ : t.id # e.timer}]
        /\ entries' = [entries EXCEPT ![i] = Without(@, n)]
  /\ calls' = calls + 1
  /\ afterRemove' = [afterRemove EXCEPT ![i][n] = TRUE]
  /\ afterPauseJob' = [afterPauseJob EXCEPT ![i][n] = "no"]
  /\ lastCall' = "ok"
  /\ UNCHANGED <<loop, calc, faultVars, shutdown, deployment, now, storeVars, initVars, running, execVars, afterPause, afterStop>>

alreadyRunning_Never(i) == FALSE

\* Whether start() returns at once (`if (this.running)`).
alreadyRunning(i) == running[i]

\* start() up to `await this.ensureInitialized()`; ensureInitialized runs
\* initialize() on its first call, up to `await Promise.all(indexPromises)`.
StartBegin(i) ==
  /\ calls < MaxCalls
  /\ calls' = calls + 1
  /\ afterPause' = [afterPause EXCEPT ![i] = FALSE]
  /\ IF alreadyRunning(i)
       THEN UNCHANGED <<storeVars, initVars>>
       ELSE /\ pendingStarts[i] < MaxPendingStarts
            /\ pendingStarts' = [pendingStarts EXCEPT ![i] = @ + 1]
            /\ IF initPromise[i] # "unset"
                 THEN UNCHANGED <<storeVars, initPromise, collection>>
                 ELSE /\ collection' = [collection EXCEPT ![i] = TRUE]
                      /\ IF collectionCache
                           THEN /\ initPromise' = [initPromise EXCEPT ![i] = "resolved"]
                                /\ UNCHANGED storeVars
                           ELSE /\ initPromise' = [initPromise EXCEPT ![i] = "pending"]
                                /\ collectionCache' = TRUE
                                /\ uniqueIndex' = "building"
                                /\ UNCHANGED docs
  /\ lastCall' = IF alreadyRunning(i) THEN "AlreadyRunning" ELSE "ok"
  /\ UNCHANGED <<loop, calc, faultVars, shutdown, deployment, now, running, entries, timers, execVars, afterStop, afterPauseJob, afterRemove>>

\* start() after the await: schedule every entry, then running = true.
\* A scheduleEntry that throws ends the loop and start() rejects.
StartFinish(i) ==
  /\ pendingStarts[i] > 0
  /\ initPromise[i] = "resolved"
  /\ pendingStarts' = [pendingStarts EXCEPT ![i] = @ - 1]
  /\ LET st == scheduleAll(Reg(i), 1, now)
     IN /\ entries' = [entries EXCEPT ![i] = st.ent]
        /\ timers' = [timers EXCEPT ![i] = st.tim]
        /\ running' = [running EXCEPT ![i] = IF st.threw THEN @ ELSE TRUE]
  /\ UNCHANGED <<loop, calc, faultVars, lastCall, shutdown, deployment, now, storeVars, initPromise, collection, execVars, calls,
                 afterPause, afterStop, afterPauseJob, afterRemove>>

\* start() after the await, when initialization failed: start() rejects.
StartFail(i) ==
  /\ pendingStarts[i] > 0
  /\ initPromise[i] = "rejected"
  /\ pendingStarts' = [pendingStarts EXCEPT ![i] = @ - 1]
  /\ UNCHANGED <<loop, calc, faultVars, lastCall, shutdown, deployment, now, storeVars, initPromise, collection, running, entries, timers,
                 execVars, calls, afterPause, afterStop, afterPauseJob, afterRemove>>

\* The entry timers pause() leaves: every entry.timer cleared and unset.
pauseTimers(i) == {t \in timers[i] : t.id \notin EntryTimerIds(entries[i])}

\* pause()
Pause(i) ==
  /\ calls < MaxCalls
  /\ calls' = calls + 1
  /\ afterPause' = [afterPause EXCEPT ![i] = TRUE]
  /\ IF ~running[i]
       THEN UNCHANGED <<running, entries, timers>>
       ELSE /\ timers' = [timers EXCEPT ![i] = pauseTimers(i)]
            /\ entries' = [entries EXCEPT ![i] = clearAll(@, 1)]
            /\ running' = [running EXCEPT ![i] = FALSE]
  /\ lastCall' = "ok"
  /\ UNCHANGED <<loop, calc, faultVars, shutdown, deployment, now, storeVars, initVars, execVars, afterStop, afterPauseJob, afterRemove>>

\* pauseJob(jobName): the job is registered
PauseJob(i, n) ==
  /\ calls < MaxCalls
  /\ Has(entries[i], n)
  /\ LET k == Idx(entries[i], n)
     IN /\ timers' = [timers EXCEPT ![i] = {t \in @ : t.id # entries[i][k].timer}]
        /\ entries' = [entries EXCEPT ![i][k].timer = NoTimer, ![i][k].paused = TRUE]
  /\ calls' = calls + 1
  /\ afterPauseJob' = [afterPauseJob EXCEPT ![i][n] = IF running[i] THEN "paused" ELSE @]
  /\ lastCall' = "ok"
  /\ UNCHANGED <<loop, calc, faultVars, shutdown, deployment, now, storeVars, initVars, running, execVars, afterPause, afterStop, afterRemove>>

\* resumeJob(jobName): the job is registered; an error scheduleEntry
\* throws leaves resumeJob().
ResumeJob(i, n) ==
  /\ calls < MaxCalls
  /\ Has(entries[i], n)
  /\ calls' = calls + 1
  /\ afterPauseJob' = [afterPauseJob EXCEPT ![i][n] =
       IF entries[i][Idx(entries[i], n)].paused THEN "resumed" ELSE "no"]
  /\ LET k == Idx(entries[i], n)
     IN IF ~entries[i][k].paused
          THEN /\ lastCall' = "ok"
               /\ UNCHANGED <<entries, timers>>
          ELSE LET st == [ent |-> [entries[i] EXCEPT ![k].paused = FALSE],
                          tim |-> timers[i], threw |-> FALSE]
                   st2 == IF SchedulesNow(i) THEN scheduleEntry(st, k, now) ELSE st
               IN /\ entries' = [entries EXCEPT ![i] = st2.ent]
                  /\ timers' = [timers EXCEPT ![i] = st2.tim]
                  /\ lastCall' = IF st2.threw THEN "ScheduleError" ELSE "ok"
  /\ UNCHANGED <<loop, calc, faultVars, shutdown, deployment, now, storeVars, initVars, running, execVars, afterPause, afterStop, afterRemove>>

\* stop(): pause(), then entries.clear()
Stop(i) ==
  /\ calls < MaxCalls
  /\ calls' = calls + 1
  /\ timers' = [timers EXCEPT ![i] = IF running[i] THEN pauseTimers(i) ELSE @]
  /\ running' = [running EXCEPT ![i] = FALSE]
  /\ entries' = [entries EXCEPT ![i] = <<>>]
  /\ afterStop' = [afterStop EXCEPT ![i] = TRUE]
  /\ afterPauseJob' = [afterPauseJob EXCEPT ![i] = [n \in Names |-> "no"]]
  /\ lastCall' = "ok"
  /\ UNCHANGED <<loop, calc, faultVars, shutdown, deployment, now, storeVars, initVars, execVars, afterPause, afterRemove>>

\* The ids of the executions in flight (Array.from(this.runningJobs)).
inFlight(jobs) == {e.id : e \in jobs}

\* An execution that settled is no longer awaited by Promise.allSettled.
stillWaiting(sd, jobs) == [sd EXCEPT !.waiting = @ \cap inFlight(jobs)]

\* gracefulShutdown(timeoutMs) up to `await Promise.race([allJobs, timeout])`:
\* pause(), then return when nothing is in flight.
GracefulShutdownBegin(i) ==
  /\ calls < MaxCalls
  /\ ~shutdown[i].pending
  /\ runningJobs[i] # {} => now + TimeoutMs <= EndTime
  /\ calls' = calls + 1
  /\ lastCall' = "ok"
  /\ IF ~running[i]
       THEN UNCHANGED <<running, entries, timers>>
       ELSE /\ timers' = [timers EXCEPT ![i] = pauseTimers(i)]
            /\ entries' = [entries EXCEPT ![i] = clearAll(@, 1)]
            /\ running' = [running EXCEPT ![i] = FALSE]
  /\ shutdown' = [shutdown EXCEPT ![i] =
       IF runningJobs[i] = {} THEN NoShutdown
       ELSE [pending |-> TRUE, waiting |-> inFlight(runningJobs[i]), deadline |-> now + TimeoutMs]]
  /\ UNCHANGED <<loop, calc, faultVars, deployment, now, storeVars, initVars, execVars, afterPause, afterStop,
                 afterPauseJob, afterRemove>>

shutdownReturns_WhenAllSettled(sd, t) == sd.waiting = {}

\* Promise.race([allJobs, timeout]) has settled: every awaited execution
\* settled, or the timeout of timeoutMs came due.
shutdownReturns(sd, t) == sd.waiting = {} \/ t >= sd.deadline

\* gracefulShutdown after the await: it logs and returns.
GracefulShutdownFinish(i) ==
  /\ shutdown[i].pending
  /\ shutdownReturns(shutdown[i], now)
  /\ shutdown' = [shutdown EXCEPT ![i] = NoShutdown]
  /\ UNCHANGED <<loop, calc, faultVars, lastCall, deployment, now, storeVars, initVars, running, entries, timers,
                 execVars, calls, afterPause, afterStop, afterPauseJob, afterRemove>>

\* ------------------------------------------------------------------------
\* Time, timers and the store
\* ------------------------------------------------------------------------
ghostVars == <<afterPause, afterStop, afterPauseJob, afterRemove>>

\* The wall clock advances.
Tick ==
  /\ MicrotasksDrained
  /\ now < EndTime
  /\ now' = now + TickMs
  /\ UNCHANGED <<loop, calc, faultVars, lastCall, shutdown, deployment, storeVars, initVars, running, entries, timers, execVars, calls, ghostVars>>

acquiresLease_Always(cfg) == TRUE

\* Whether a firing of this entry takes a lease (`if (entry.persist)`).
acquiresLease(cfg) == cfg.persist

\* entryWrapper + executeJob up to its first await: the coroutine of a
\* firing.  A persisted job has sent its insert; any other job has called
\* its body.
newExecution(i, cfg, intendedAt) ==
  [id |-> NewId(runningJobs[i]), cfg |-> cfg, at |-> setMilliseconds0(intendedAt),
   pc |-> IF acquiresLease(cfg) THEN "insert" ELSE "body", doc |-> NoDoc]

\* A timeout set by scheduleNext comes due (at or after its time).  A
\* "fire" timeout calls fn(intendedAt) and schedules the next run; the
\* other timeouts only run scheduleNext again.
TimerFire(i, t) ==
  /\ MicrotasksDrained
  /\ t \in timers[i]
  /\ now >= t.due
  /\ timers' = [timers EXCEPT ![i] = (@ \ {t}) \cup {scheduleNext(t.cfg, t.id, now)}]
  /\ IF t.kind = "fire"
       THEN /\ TotalFirings < MaxFirings
            /\ firings' = [firings EXCEPT ![i][t.cfg.name] = @ + 1]
            /\ IF collection[i]
                 THEN LET e == newExecution(i, t.cfg, setMilliseconds0(t.nextRun))
                      IN /\ runningJobs' = [runningJobs EXCEPT ![i] = @ \cup {e}]
                         /\ IF e.pc = "body"
                              THEN /\ bodyCount' = [bodyCount EXCEPT ![i][e.cfg.name] = @ + 1]
                                   /\ bodyLog' = bodyLog \cup {Firing(i, e.cfg.name, e.at)}
                              ELSE UNCHANGED <<bodyCount, bodyLog>>
                 ELSE UNCHANGED <<runningJobs, bodyCount, bodyLog>>
       ELSE UNCHANGED <<runningJobs, firings, bodyCount, bodyLog>>
  /\ UNCHANGED <<loop, calc, faultVars, lastCall, shutdown, deployment, now, storeVars, initVars, running, entries, bodyFails, onErrorCalls,
                 failedDocs, calls, ghostVars>>

HasDuplicateKeys(ds) ==
  \E a, b \in 1..Len(ds) :
    a # b /\ ds[a].name = ds[b].name /\ ds[a].intendedAt = ds[b].intendedAt

\* createIndexAsync settles (Promise.all of the index promises): the
\* unique index cannot be built over records that already collide.
IndexBuilt ==
  /\ uniqueIndex = "building"
  /\ uniqueIndex' = IF HasDuplicateKeys(docs) THEN "failed" ELSE "ready"
  /\ initPromise' = [i \in Instances |->
                       IF initPromise[i] = "pending"
                         THEN (IF HasDuplicateKeys(docs) THEN "rejected" ELSE "resolved")
                         ELSE initPromise[i]]
  /\ UNCHANGED <<loop, calc, faultVars, lastCall, shutdown, deployment, now, collectionCache, docs, collection, pendingStarts, running, entries,
                 timers, execVars, calls, ghostVars>>

\* The store rejects an insert with code 11000 when the unique index
\* exists and holds the key.
DuplicateKey(name, intendedAt) ==
  /\ uniqueIndex = "ready"
  /\ \E k \in 1..Len(docs) : docs[k].name = name /\ docs[k].intendedAt = intendedAt

skipsOnDuplicate_FallsThrough == FALSE

\* Whether executeJob returns when its insert was rejected with code 11000.
skipsOnDuplicate == TRUE

\* insertAsync settles: on a duplicate key the coroutine returns, else
\* the record is stored and the job body is called.
InsertLease(i, e) ==
  /\ MicrotasksDrained
  /\ e \in runningJobs[i]
  /\ e.pc = "insert"
  /\ IF DuplicateKey(e.cfg.name, e.at)
       THEN /\ IF skipsOnDuplicate
                 THEN /\ runningJobs' = [runningJobs EXCEPT ![i] = @ \ {e}]
                      /\ UNCHANGED <<bodyCount, bodyLog>>
                 ELSE /\ runningJobs' = [runningJobs EXCEPT ![i] = (@ \ {e}) \cup {[e EXCEPT !.pc = "body"]}]
                      /\ bodyCount' = [bodyCount EXCEPT ![i][e.cfg.name] = @ + 1]
                      /\ bodyLog' = bodyLog \cup {Firing(i, e.cfg.name, e.at)}
            /\ UNCHANGED docs
       ELSE /\ docs' = Append(docs, [name |-> e.cfg.name, intendedAt |-> e.at, finished |-> FALSE,
                                     result |-> FALSE, error |-> FALSE, by |-> i])
            /\ runningJobs' = [runningJobs EXCEPT ![i] =
                 (@ \ {e}) \cup {[e EXCEPT !.pc = "body", !.doc = Len(docs) + 1]}]
            /\ bodyCount' = [bodyCount EXCEPT ![i][e.cfg.name] = @ + 1]
            /\ bodyLog' = bodyLog \cup {Firing(i, e.cfg.name, e.at)}
  /\ shutdown' = [shutdown EXCEPT ![i] = stillWaiting(@, runningJobs'[i])]
  /\ UNCHANGED <<loop, calc, faultVars, lastCall, deployment, now, collectionCache, uniqueIndex, initVars, running, entries, timers, firings,
                 bodyFails, onErrorCalls, failedDocs, calls, ghostVars>>

\* How often the catch block calls entry.onError for one failed body.
onErrorInvocations(cfg) == IF cfg.hasOnError THEN 1 ELSE 0

sendsOutcome_WhileRunning(i, e) == e.doc # NoDoc /\ running[i]

\* Whether the outcome of the body is written (`if (jobHistoryId)`).
sendsOutcome(i, e) == e.doc # NoDoc

\* The job body settles.  On success the result update is sent when a
\* record was inserted; on failure onError is called (when given) and then
\* the error update is sent when a record was inserted.
BodyFinish(i, e, ok) ==
  /\ e \in runningJobs[i]
  /\ e.pc = "body"
  /\ runningJobs' = [runningJobs EXCEPT ![i] =
       (@ \ {e}) \cup (IF ~sendsOutcome(i, e) THEN {}
                       ELSE {[e EXCEPT !.pc = IF ok THEN "updateResult" ELSE "updateError"]})]
  /\ IF ok
       THEN UNCHANGED <<bodyFails, onErrorCalls, failedDocs>>
       ELSE /\ bodyFails' = Bump(bodyFails, Firing(i, e.cfg.name, e.at))
            /\ onErrorCalls' = [onErrorCalls EXCEPT ![Firing(i, e.cfg.name, e.at)] =
                                  @ + onErrorInvocations(e.cfg)]
            /\ failedDocs' = failedDocs \cup ({e.doc} \ {NoDoc})
  /\ shutdown' = [shutdown EXCEPT ![i] = stillWaiting(@, runningJobs'[i])]
  /\ UNCHANGED <<loop, calc, faultVars, lastCall, deployment, now, storeVars, initVars, running, entries, timers, firings, bodyCount,
                 bodyLog, calls, ghostVars>>

outcomeUpdate_ResultOnly(d, pc) == [d EXCEPT !.finished = TRUE, !.result = TRUE]

\* The $set of the outcome update.
outcomeUpdate(d, pc) ==
  IF pc = "updateResult"
    THEN [d EXCEPT !.finished = TRUE, !.result = TRUE]
    ELSE [d EXCEPT !.finished = TRUE, !.error = TRUE]

\* updateAsync settles: the record of the firing gets its outcome.
UpdateHistory(i, e) ==
  /\ MicrotasksDrained
  /\ e \in runningJobs[i]
  /\ e.pc \in {"updateResult", "updateError"}
  /\ docs' = [docs EXCEPT ![e.doc] = outcomeUpdate(@, e.pc)]
  /\ runningJobs' = [runningJobs EXCEPT ![i] = @ \ {e}]
  /\ shutdown' = [shutdown EXCEPT ![i] = stillWaiting(@, runningJobs'[i])]
  /\ UNCHANGED <<loop, calc, faultVars, lastCall, deployment, now, collectionCache, uniqueIndex, initVars, running, entries, timers, firings,
                 bodyCount, bodyLog, bodyFails, onErrorCalls, failedDocs, calls, ghostVars>>

\* ------------------------------------------------------------------------
\* Queries
\* ------------------------------------------------------------------------

\* collection.find({name: jobName}, {sort: {startedAt: -1}}): the records
\* of the job, the most recently started first
RECURSIVE recentRuns(_, _)
recentRuns(ds, jobName) ==
  IF ds = <<>> THEN <<>>
  ELSE LET r == ds[Len(ds)]
           older == recentRuns(SubSeq(ds, 1, Len(ds) - 1), jobName)
       IN IF r.name = jobName THEN <<r>> \o older ELSE older

\* recentRuns.filter(r => r.error).length with hasError, and
\* recentRuns.filter(r => !r.error).length without
filterLength(runs, hasError) == Len(SelectSeq(runs, LAMBDA r : r.error = hasError))

\* getJobStatus(jobName) of an initialized instance that holds the job:
\* lastRun and stats of the JobStatus it resolves to
getJobStatus(i, jobName) ==
  LET runs == recentRuns(docs, jobName)
  IN [lastRun |-> IF runs # <<>>
                    THEN [exists |-> TRUE, finishedAt |-> runs[1].finished, success |-> ~runs[1].error]
                    ELSE [exists |-> FALSE, finishedAt |-> FALSE, success |-> FALSE],
      stats |-> [totalRuns |-> Len(runs),
                 successCount |-> filterLength(runs, FALSE),
                 errorCount |-> filterLength(runs, TRUE)]]

\* nextScheduledAt(jobName); `undefined` (no entry, or the schedule
\* function threw) is the value ScheduleError
nextScheduledAt(i, jobName) ==
  IF ~Has(entries[i], jobName)
    THEN ScheduleError
    ELSE getNextScheduledTime(entries[i][Idx(entries[i], jobName)].cfg.schedule, now)

\* healthCheck(): `jobs` in registry order, the counts, and the issues as
\* pairs of the text and the job name
healthCheck(i) ==
  LET es == entries[i]
      jobs == [k \in 1..Len(es) |->
                 [name |-> es[k].name,
                  hasTimer |-> es[k].timer # NoTimer,
                  isPaused |-> es[k].paused,
                  nextRunAt |-> IF es[k].timer # NoTimer
                                  THEN nextScheduledAt(i, es[k].name) ELSE ScheduleError]]
      scheduledJobs == SelectSeq(jobs, LAMBDA j : j.hasTimer /\ ~j.isPaused)
      pausedJobs == SelectSeq(jobs, LAMBDA j : j.isPaused)
      unscheduledJobs == SelectSeq(jobs, LAMBDA j : ~j.hasTimer /\ ~j.isPaused /\ running[i])
      noNextRun == SelectSeq(scheduledJobs, LAMBDA j : j.nextRunAt = ScheduleError)
  IN [healthy |-> running[i] /\ Len(unscheduledJobs) = 0 /\ Len(noNextRun) = 0,
      running |-> running[i],
      totalJobs |-> Len(jobs),
      scheduledJobs |-> Len(scheduledJobs),
      pausedJobs |-> Len(pausedJobs),
      runningJobs |-> Cardinality(runningJobs[i]),
      issues |-> {<<"is not scheduled", unscheduledJobs[k].name>> : k \in 1..Len(unscheduledJobs)}
                   \cup {<<"has no next run time", noNextRun[k].name>> : k \in 1..Len(noNextRun)},
      jobs |-> jobs]

\* getMetrics()
getMetrics(i) ==
  [isRunning |-> running[i],
   jobCount |-> Len(entries[i]),
   runningJobCount |-> Cardinality(runningJobs[i]),
   pausedJobCount |-> Len(SelectSeq(entries[i], LAMBDA e : e.paused)),
   scheduledJobCount |-> Len(SelectSeq(entries[i], LAMBDA e : e.timer # NoTimer /\ ~e.paused))]

\* ------------------------------------------------------------------------
\* Specification
\* ------------------------------------------------------------------------
Next ==
  \/ \E i \in deployment.instances, cfg \in deployment.catalog : Add(i, cfg)
  \/ \E i \in deployment.instances, cfg \in deployment.catalog : AddExisting(i, cfg)
  \/ \E i \in deployment.instances, n \in Names : Remove(i, n)
  \/ \E i \in deployment.instances, n \in Names : RemoveMissing(i, n)
  \/ \E i \in deployment.instances, n \in Names : PauseJobMissing(i, n)
  \/ \E i \in deployment.instances, n \in Names : ResumeJobMissing(i, n)
  \/ \E i \in deployment.instances : GracefulShutdownBegin(i)
  \/ \E i \in Instances : GracefulShutdownFinish(i)
  \/ \E i \in deployment.instances : StartBegin(i)
  \/ \E i \in deployment.instances : StartFinish(i)
  \/ \E i \in deployment.instances : StartFail(i)
  \/ \E i \in deployment.instances : Pause(i)
  \/ \E i \in deployment.instances, n \in Names : PauseJob(i, n)
  \/ \E i \in deployment.instances, n \in Names : ResumeJob(i, n)
  \/ \E i \in deployment.instances : Stop(i)
  \/ Tick
  \/ \E i \in Instances : \E t \in timers[i] : TimerFire(i, t)
  \/ IndexBuilt
  \/ \E i \in Instances : \E e \in runningJobs[i] : InsertLease(i, e)
  \/ \E i \in Instances : \E e \in runningJobs[i] : \E ok \in BOOLEAN : BodyFinish(i, e, ok)
  \/ \E i \in Instances : \E e \in runningJobs[i] : UpdateHistory(i, e)

Spec == Init /\ [][Next]_vars

\* The instance of the process that has only one.
TheInstance == CHOOSE i \in Instances : \E d \in Deployments : d.instances = {i}

\* The event loop runs every callback that is ready, the store answers
\* index builds, and the clock advances.  Callers, job bodies, timers of
\* jobs and the store's answers to inserts and updates are not obliged to
\* do anything.
Fairness ==
  /\ WF_vars(Tick)
  /\ WF_vars(IndexBuilt)
  /\ WF_vars(StartFinish(TheInstance))
  /\ WF_vars(GracefulShutdownFinish(TheInstance))

\* A process with one SyncedCron instance.  Its index build cannot fail,
\* because no record exists before its first start() has finished.
InitSingle == Init /\ Cardinality(deployment.instances) = 1

NextSingle ==
  \/ \E i \in deployment.instances, cfg \in deployment.catalog : Add(i, cfg)
  \/ \E i \in deployment.instances, cfg \in deployment.catalog : AddExisting(i, cfg)
  \/ \E i \in deployment.instances, n \in Names : Remove(i, n)
  \/ \E i \in deployment.instances, n \in Names : RemoveMissing(i, n)
  \/ \E i \in deployment.instances, n \in Names : PauseJobMissing(i, n)
  \/ \E i \in deployment.instances, n \in Names : ResumeJobMissing(i, n)
  \/ \E i \in deployment.instances : GracefulShutdownBegin(i)
  \/ \E i \in deployment.instances : GracefulShutdownFinish(i)
  \/ \E i \in deployment.instances : StartBegin(i)
  \/ \E i \in deployment.instances : StartFinish(i)
  \/ \E i \in deployment.instances : Pause(i)
  \/ \E i \in deployment.instances, n \in Names : PauseJob(i, n)
  \/ \E i \in deployment.instances, n \in Names : ResumeJob(i, n)
  \/ \E i \in deployment.instances : Stop(i)
  \/ Tick
  \/ \E i \in deployment.instances : \E t \in timers[i] : TimerFire(i, t)
  \/ IndexBuilt
  \/ \E i \in deployment.instances : \E e \in runningJobs[i] : InsertLease(i, e)
  \/ \E i \in deployment.instances : \E e \in runningJobs[i] : \E ok \in BOOLEAN : BodyFinish(i, e, ok)
  \/ \E i \in deployment.instances : \E e \in runningJobs[i] : UpdateHistory(i, e)

SpecSingle == InitSingle /\ [][NextSingle]_vars /\ Fairness

\* ------------------------------------------------------------------------
\* A store that can fail: the process of one instance, whose store may
\* answer a request with an error other than duplicate-key.
\* ------------------------------------------------------------------------

\* updateAsync rejects.  The update of a result is awaited inside the try
\* block of executeJob: its error is caught as if the job had failed, so
\* onError is called (when given) and the error update is sent.  The update
\* of an error is awaited inside the catch block: its error leaves
\* executeJob, whose promise rejects; `finally` drops it from runningJobs.
UpdateFails(i, e) ==
  /\ MicrotasksDrained
  /\ faults < MaxFaults
  /\ e \in runningJobs[i]
  /\ e.pc \in {"updateResult", "updateError"}
  /\ faults' = faults + 1
  /\ IF e.pc = "updateResult"
       THEN /\ runningJobs' = [runningJobs EXCEPT ![i] = (@ \ {e}) \cup {[e EXCEPT !.pc = "updateError"]}]
            /\ onErrorCalls' = [onErrorCalls EXCEPT ![Firing(i, e.cfg.name, e.at)] =
                                  @ + onErrorInvocations(e.cfg)]
            /\ UNCHANGED rejected
       ELSE /\ runningJobs' = [runningJobs EXCEPT ![i] = @ \ {e}]
            /\ rejected' = rejected \cup {Firing(i, e.cfg.name, e.at)}
            /\ UNCHANGED onErrorCalls
  /\ shutdown' = [shutdown EXCEPT ![i] = stillWaiting(@, runningJobs'[i])]
  /\ UNCHANGED <<loop, calc, lastCall, deployment, now, storeVars, initVars, running, entries, timers, firings,
                 bodyCount, bodyLog, bodyFails, failedDocs, calls, ghostVars>>

rethrows_Never(code) == FALSE

\* Whether the catch block of the insert rethrows the store's error
\* (`if (... e.code === 11000) return; throw e`).
rethrows(code) == code # "11000"

\* insertAsync rejects with an error other than duplicate-key: executeJob
\* rethrows it before the job body is reached, its promise rejects and
\* `finally` drops it from runningJobs.
InsertFails(i, e) ==
  /\ MicrotasksDrained
  /\ faults < MaxFaults
  /\ e \in runningJobs[i]
  /\ e.pc = "insert"
  /\ faults' = faults + 1
  /\ IF rethrows("other")
       THEN /\ runningJobs' = [runningJobs EXCEPT ![i] = @ \ {e}]
            /\ rejected' = rejected \cup {Firing(i, e.cfg.name, e.at)}
            /\ UNCHANGED <<bodyCount, bodyLog>>
       ELSE /\ runningJobs' = [runningJobs EXCEPT ![i] = (@ \ {e}) \cup {[e EXCEPT !.pc = "body"]}]
            /\ bodyCount' = [bodyCount EXCEPT ![i][e.cfg.name] = @ + 1]
            /\ bodyLog' = bodyLog \cup {Firing(i, e.cfg.name, e.at)}
            /\ UNCHANGED rejected
  /\ shutdown' = [shutdown EXCEPT ![i] = stillWaiting(@, runningJobs'[i])]
  /\ UNCHANGED <<loop, calc, lastCall, deployment, now, storeVars, initVars, running, entries, timers, firings,
                 bodyFails, onErrorCalls, failedDocs, calls, ghostVars>>

NextFaults ==
  \/ NextSingle
  \/ \E i \in deployment.instances : \E e \in runningJobs[i] : UpdateFails(i, e)

SpecFaults == InitSingle /\ [][NextFaults]_vars

\* The process of one instance whose store may fail a lease insert.
NextInsertFaults ==
  \/ NextSingle
  \/ \E i \in deployment.instances : \E e \in runningJobs[i] : InsertFails(i, e)

SpecInsertFaults == InitSingle /\ [][NextInsertFaults]_vars


\* ------------------------------------------------------------------------
\* The process of one instance whose callers also use the query methods.
\* ------------------------------------------------------------------------
QueryMethods ==
  {"isJobPaused", "isRunning", "getJobNames", "healthCheck", "getMetrics", "nextScheduledAt",
   "getJobStatus"}

sendsFind_Always(method) == TRUE

\* Whether the method queries the collection (`collection.find(...)`).
sendsFind(method) == method = "getJobStatus"

\* The number of requests the method sends to the store: getJobStatus
\* sends its find when the job is registered and the collection exists.
storeRequests(i, method, jobName) ==
  IF sendsFind(method) /\ Has(entries[i], jobName) /\ collection[i] THEN 1 ELSE 0

\* A query method is called (with jobName where it takes one); the
\* synchronous ones return, getJobStatus runs up to its await.
Query(i, method, jobName) ==
  /\ calls < MaxCalls
  /\ calls' = calls + 1
  /\ lastCall' = "ok"
  /\ calc' = [op |-> "query", method |-> method, storeRequests |-> storeRequests(i, method, jobName)]
  /\ UNCHANGED <<loop, faultVars, shutdown, deployment, now, storeVars, initVars, running, entries, timers,
                 execVars, afterPause, afterStop, afterPauseJob, afterRemove>>

NextQueries ==
  \/ NextSingle
  \/ \E i \in deployment.instances, method \in QueryMethods, n \in Names : Query(i, method, n)

SpecQueries == InitSingle /\ [][NextQueries]_vars

\* ------------------------------------------------------------------------
\* The process of one instance whose callers register a job with an
\* ill-formed schedule next to a well-formed one.
\* ------------------------------------------------------------------------
InitIllFormed ==
  /\ deployment = [instances |-> {TheInstance}, catalog |-> {JobA, JobX}]
  /\ Constructed
  /\ loop = NoLoop
  /\ calc = NoCalc

SpecIllFormed == InitIllFormed /\ [][NextSingle]_vars

\* ------------------------------------------------------------------------
\* A timer loop on its own: scheduleRecurring of the timer manager, and
\* scheduleJob of the scheduler, driven by a schedule function nextFn.
\*
\* The loop reads the clock only to take differences, so its state holds
\* durations and no instants.  A duration is kept as
\* caps * MAX_SETTIMEOUT_DELAY + ms with 0 <= ms < MAX_SETTIMEOUT_DELAY.
\* ------------------------------------------------------------------------
MAX_SETTIMEOUT_DELAY == 2147483647
DefaultMaxConsecutiveFailures == 3
BackoffBase == 10
BackoffCap == 60000

MaxAttempts == 16
MaxExecutions == 2
MaxLate == 3
MaxClears == 2

processVars ==
  <<deployment, now, collectionCache, uniqueIndex, docs, running, initPromise, collection,
    pendingStarts, entries, timers, runningJobs, calls, firings, bodyCount,
    bodyLog, bodyFails, onErrorCalls, failedDocs, afterPause, afterStop,
    afterPauseJob, afterRemove, lastCall, shutdown, rejected, faults>>

Dur(q, r) == [caps |-> q, ms |-> r]

Ms(n) == Dur(n \div MAX_SETTIMEOUT_DELAY, n % MAX_SETTIMEOUT_DELAY)

DurLT(a, b) == a.caps < b.caps \/ (a.caps = b.caps /\ a.ms < b.ms)

DurMin(a, b) == IF DurLT(a, b) THEN a ELSE b

\* a - b for a >= b
DurSub(a, b) ==
  IF a.ms >= b.ms
    THEN Dur(a.caps - b.caps, a.ms - b.ms)
    ELSE Dur(a.caps - b.caps - 1, (MAX_SETTIMEOUT_DELAY - b.ms) + a.ms)

DurAdd(a, b) ==
  IF a.ms >= MAX_SETTIMEOUT_DELAY - b.ms
    THEN Dur(a.caps + b.caps + 1, a.ms - (MAX_SETTIMEOUT_DELAY - b.ms))
    ELSE Dur(a.caps + b.caps, a.ms + b.ms)

\* The schedule functions a loop is run with.  "throws", "invalid" and
\* "past" fail on every call; "flaky" fails on some calls; "drift" yields
\* now + interval (getDriftInterval); "fixed" yields the next of the
\* boundaries that lie `interval` apart (a cron, aligned or daily schedule).
Days25 == Dur(1, 12516353)

BoundaryPeriod == Dur(2, 500)

NextFns ==
  {[kind |-> "throws", interval |-> Ms(0)],
   [kind |-> "invalid", interval |-> Ms(0)],
   [kind |-> "past", interval |-> Ms(0)],
   [kind |-> "flaky", interval |-> Ms(2000)],
   [kind |-> "drift", interval |-> Ms(2000)],
   [kind |-> "drift", interval |-> Days25],
   [kind |-> "fixed", interval |-> BoundaryPeriod]}

\* Time from the creation of the loop to the first boundary.
FirstBoundaries == {Ms(5000), Dur(1, 700)}

FailureLimits == {1, DefaultMaxConsecutiveFailures, 15}

\* The onSchedule callbacks a scheduleRecurring loop is run with: one
\* that returns and, for the schedule functions without boundaries, one
\* that may throw.
OnSchedules(f) == IF f.kind = "fixed" THEN {"returns"} ELSE {"returns", "mayThrow"}

\* scheduleJob is run with getNextScheduledTime, which throws or returns a
\* date; it has no failure limit and no callbacks.
LoopConfigs ==
  UNION {{[impl |-> "scheduleRecurring", nextFn |-> f, max |-> m, untilNext |-> u, onSchedule |-> c] :
            m \in FailureLimits, u \in FirstBoundaries, c \in OnSchedules(f)} : f \in NextFns}
  \cup
  {[impl |-> "scheduleJob", nextFn |-> f, max |-> 0, untilNext |-> u, onSchedule |-> "returns"] :
     f \in {g \in NextFns : g.kind # "invalid"}, u \in FirstBoundaries}

NoTimeout == [kind |-> "none", delay |-> Ms(0), target |-> Ms(0)]

\* The closure variables of a loop just created, and what is observed of
\* it: the calls of scheduleNext that got past `if (done)` (attempts), the
\* calls of the job (executions), whether a timeout was clamped (clamps),
\* whether the job ran before its computed instant (early), whether clear()
\* was called, how often and where first (clearCalls, clearedAt), whether
\* the job ran or scheduleNext got past `if (done)` after a clear()
\* (ranAfterClear, scheduledAfterClear), the parity of the timeout
\* callbacks run, the scheduling attempts that ended in an error, in total
\* (failures) and since the last attempt that armed the timeout of a date
\* (failedInARow), the errors the executed function threw (executeErrors)
\* and those of them onError was called with (executeErrorsReported).
newLoop(cfg) ==
  [impl |-> cfg.impl, nextFn |-> cfg.nextFn, max |-> cfg.max, onSchedule |-> cfg.onSchedule,
   failures |-> 0, failedInARow |-> 0, executeErrors |-> 0, executeErrorsReported |-> 0,
   untilNext |-> IF cfg.nextFn.kind = "fixed" THEN cfg.untilNext ELSE Ms(0),
   done |-> FALSE, consecutiveFailures |-> 0, timeout |-> NoTimeout,
   attempts |-> 0, executions |-> 0, circuitBreaks |-> 0,
   clamps |-> 0, early |-> FALSE, cleared |-> FALSE, callbacks |-> 0,
   clearCalls |-> 0, clearedAt |-> "none",
   ranAfterClear |-> FALSE, scheduledAfterClear |-> FALSE]

\* What a call of nextFn can give: it throws, returns an invalid date,
\* returns a date not after now, or returns a date `delay` after now.
nextFnResults(l) ==
  LET fail(k) == [kind |-> k, delay |-> Ms(0)]
      date(dl) == [kind |-> "date", delay |-> dl]
  IN CASE l.nextFn.kind = "throws" -> {fail("throw")}
       [] l.nextFn.kind = "invalid" -> {fail("invalid")}
       [] l.nextFn.kind = "past" -> {fail("past")}
       [] l.nextFn.kind = "flaky" -> {fail("throw"), date(l.nextFn.interval)}
       [] l.nextFn.kind = "drift" -> {date(l.nextFn.interval)}
       [] l.nextFn.kind = "fixed" -> {date(l.untilNext)}

\* What a call of onSchedule can do.
onScheduleResults(l) ==
  IF l.onSchedule = "mayThrow" THEN {"returns", "throws"} ELSE {"returns"}

tripsBreaker_Late(failures, max) == failures > max

\* `if (consecutiveFailures >= maxConsecutiveFailures)`
tripsBreaker(failures, max) == failures >= max

\* Math.min(10 * 2 ** (consecutiveFailures - 1), 60000)
backoffDelay(failures) == Min(BackoffBase * 2 ^ (failures - 1), BackoffCap)

needsReschedule_Never(actualDelay, delay) == FALSE

\* `needsReschedule = actualDelay < delay`
needsReschedule(actualDelay, delay) == DurLT(actualDelay, delay)

\* The timeout armed for a date `delay` after now, capped at `cap`.
armed(delay, cap) ==
  LET actualDelay == DurMin(delay, cap)
  IN [kind |-> IF needsReschedule(actualDelay, delay) THEN "recheck" ELSE "fire",
      delay |-> actualDelay, target |-> delay]

counted(l, t) ==
  [l EXCEPT !.attempts = Min(@ + 1, MaxAttempts),
            !.clamps = IF t.kind = "recheck" THEN 1 ELSE @,
            !.scheduledAfterClear = @ \/ l.cleared,
            !.timeout = t]

stopsWhenDone_Never(l) == FALSE

\* `if (done) return` at the head of scheduleNext
stopsWhenDone(l) == l.done

\* The attempt ended in an error / armed the timeout of a date.
failedAttempt(l) ==
  [l EXCEPT !.failures = Min(@ + 1, MaxAttempts), !.failedInARow = Min(@ + 1, MaxAttempts)]

succeededAttempt(l) == [l EXCEPT !.failedInARow = 0]

resetFailures_Keep(failures) == failures

\* `consecutiveFailures = 0` once the delay of a valid date is computed
resetFailures(failures) == 0

\* scheduleRecurring: one call of scheduleNext, nextFn giving r and
\* onSchedule (when it is reached) doing s.  The try block fails when nextFn
\* throws or returns no future date, and when onSchedule throws, which is
\* after the failure counter was reset.
recurringScheduleNext(l, r, s) ==
  IF stopsWhenDone(l) THEN l
  ELSE IF r.kind # "date" \/ s = "throws"
    THEN LET failures == (IF r.kind = "date" THEN resetFailures(l.consecutiveFailures)
                          ELSE l.consecutiveFailures) + 1
         IN IF tripsBreaker(failures, l.max)
              THEN [failedAttempt(counted(l, NoTimeout)) EXCEPT !.consecutiveFailures = failures,
                                                                !.done = TRUE,
                                                                !.circuitBreaks = @ + 1]
              ELSE [failedAttempt(counted(l, [kind |-> "backoff", delay |-> Ms(backoffDelay(failures)),
                                              target |-> Ms(0)]))
                      EXCEPT !.consecutiveFailures = failures]
    ELSE [succeededAttempt(counted(l, armed(r.delay, Ms(MAX_SETTIMEOUT_DELAY))))
            EXCEPT !.consecutiveFailures = resetFailures(@)]

\* scheduleJob: one call of scheduleNext, getNextScheduledTime giving r
jobScheduleNext(l, r) ==
  IF stopsWhenDone(l) THEN l
  ELSE IF r.kind = "throw"
    THEN failedAttempt(counted(l, [kind |-> "errorRetry", delay |-> Ms(ErrorRetryDelay), target |-> Ms(0)]))
  ELSE IF r.kind = "past"
    THEN failedAttempt(counted(l, [kind |-> "retry", delay |-> Ms(RetryDelay), target |-> Ms(0)]))
  ELSE succeededAttempt(counted(l, armed(r.delay, Ms(maxDelay))))

loopScheduleNext(l, r, s) ==
  IF l.impl = "scheduleRecurring" THEN recurringScheduleNext(l, r, s) ELSE jobScheduleNext(l, r)

\* The time to the next boundary of a "fixed" schedule after `elapsed`.
advance(l, elapsed) ==
  IF l.nextFn.kind # "fixed" THEN l.untilNext
  ELSE IF DurLT(elapsed, l.untilNext) THEN DurSub(l.untilNext, elapsed)
  ELSE DurSub(l.nextFn.interval, DurSub(elapsed, l.untilNext))

\* The loop right after scheduleRecurring / scheduleJob returned it.
InitLoop ==
  /\ deployment = [instances |-> {}, catalog |-> {}]
  /\ Constructed
  /\ calc = NoCalc
  /\ \E cfg \in LoopConfigs :
       \E r \in nextFnResults(newLoop(cfg)), s \in onScheduleResults(newLoop(cfg)) :
         loop = loopScheduleNext(newLoop(cfg), r, s)

\* Whether the pending timeout is the one currentTimer refers to.
\* scheduleRecurring keeps every timeout in currentTimer; scheduleJob keeps
\* the timeout of a computed date and not its two retry timeouts.
isCurrentTimer(l) == l.impl = "scheduleRecurring" \/ l.timeout.kind \in {"fire", "recheck"}

\* Timer.clear(), called at `where`: done = true and clearTimeout(currentTimer)
clear(l, where) ==
  [l EXCEPT !.done = TRUE,
            !.timeout = IF isCurrentTimer(l) THEN NoTimeout ELSE @,
            !.cleared = TRUE,
            !.clearedAt = IF l.cleared THEN @ ELSE where,
            !.clearCalls = @ + 1]

executeErrorCaught_Never == FALSE

\* Whether an error of the executed function stays inside the timeout
\* callback (`try { execute(intendedAt) } catch (executeError) { ... }`).
executeErrorCaught == TRUE

\* The pending timeout comes due, `late` ms after its time, and its
\* callback runs: a "fire" timeout calls the job, which may call clear()
\* (clears) and, in scheduleRecurring, may throw (throws): the error is
\* passed to onError.  Then every timeout calls scheduleNext.
LoopTimeout(late, clears, throws) ==
  /\ loop.timeout.kind # "none"
  /\ clears => (loop.timeout.kind = "fire" /\ ~loop.done /\ loop.clearCalls < MaxClears)
  /\ throws => (/\ loop.timeout.kind = "fire" /\ ~loop.done
                /\ loop.impl = "scheduleRecurring" /\ loop.executeErrors < MaxExecutions)
  /\ LET elapsed == DurAdd(loop.timeout.delay, Ms(late))
         l1 == [loop EXCEPT !.timeout = NoTimeout, !.untilNext = advance(loop, elapsed),
                            !.callbacks = (@ + 1) % 2]
         l2 == IF loop.timeout.kind = "fire" /\ ~loop.done
                 THEN [l1 EXCEPT !.executions = Min(@ + 1, MaxExecutions),
                                 !.early = @ \/ DurLT(elapsed, loop.timeout.target),
                                 !.ranAfterClear = @ \/ loop.cleared,
                                 !.executeErrors = IF throws THEN @ + 1 ELSE @,
                                 !.executeErrorsReported =
                                    IF throws /\ executeErrorCaught THEN @ + 1 ELSE @]
                 ELSE l1
         l3 == IF clears THEN clear(l2, "execute") ELSE l2
     IN IF throws /\ ~executeErrorCaught
          THEN loop' = l3
          ELSE \E r \in nextFnResults(l3), s \in onScheduleResults(l3) :
                 loop' = loopScheduleNext(l3, r, s)
  /\ UNCHANGED <<calc, processVars>>

\* Timer.clear(), called between two callbacks
LoopClear ==
  /\ loop.clearCalls < MaxClears
  /\ loop' = clear(loop, loop.timeout.kind)
  /\ UNCHANGED <<calc, processVars>>

NextLoop ==
  \/ \E late \in 0..MaxLate : \E clears, throws \in BOOLEAN : LoopTimeout(late, clears, throws)
  \/ LoopClear

\* The timeouts of the host fire.
SpecLoop ==
  InitLoop /\ [][NextLoop]_vars
    /\ WF_vars(\E late \in 0..MaxLate : \E clears, throws \in BOOLEAN : LoopTimeout(late, clears, throws))

\* ------------------------------------------------------------------------
\* The schedule functions on their own: getNextIntervalTime of the interval
\* scheduler and getNextCronOccurrence of the cron parser, in UTC.
\*
\* The interval functions take and give instants in ms since the epoch.
\* The cron functions only look at whole minutes: their instants are kept
\* as minutes since the epoch (min) and the ms within the minute (ms).
\* ------------------------------------------------------------------------

\* Date.UTC(y, m - 1, d) in days since the epoch
daysFromCivil(y, m, d) ==
  LET yy == IF m <= 2 THEN y - 1 ELSE y
      era == yy \div 400
      yoe == yy - era * 400
      mp == IF m > 2 THEN m - 3 ELSE m + 9
      doy == (153 * mp + 2) \div 5 + d - 1
      doe == yoe * 365 + yoe \div 4 - yoe \div 100 + doy
  IN era * 146097 + doe - 719468

\* new Date(Date.UTC(y, m - 1, d, h, mi, 0, ms))
DateUTC(y, m, d, h, mi, ms) ==
  [min |-> (daysFromCivil(y, m, d) * 24 + h) * 60 + mi, ms |-> ms]

\* The calendar date of a day since the epoch
civil(days) ==
  LET z == days + 719468
      era == z \div 146097
      doe == z - era * 146097
      yoe == (doe - doe \div 1460 + doe \div 36524 - doe \div 146096) \div 365
      doy == doe - (365 * yoe + yoe \div 4 - yoe \div 100)
      mp == (5 * doy + 2) \div 153
      m == IF mp < 10 THEN mp + 3 ELSE mp - 9
  IN [year |-> yoe + era * 400 + (IF m <= 2 THEN 1 ELSE 0),
      month |-> m,
      day |-> doy - (153 * mp + 2) \div 5 + 1]

getUTCMinutes(date) == date % 60

getUTCHours(date) == (date \div 60) % 24

getUTCDate(date) == civil(date \div 1440).day

\* getUTCMonth() + 1
getUTCMonth1(date) == civil(date \div 1440).month

\* 1 January 1970 was a Thursday
getUTCDay(date) == ((date \div 1440) + 4) % 7

\* The written form of one field of a cron expression
Star == [form |-> "*", lo |-> 0, hi |-> 0, step |-> 1, parts |-> {}]

LastDay == [form |-> "L", lo |-> 0, hi |-> 0, step |-> 1, parts |-> {}]

Value(v) == [form |-> "value", lo |-> v, hi |-> v, step |-> 1, parts |-> {}]

Range(a, b) == [form |-> "range", lo |-> a, hi |-> b, step |-> 1, parts |-> {}]

StarStep(n) == [form |-> "*/step", lo |-> 0, hi |-> 0, step |-> n, parts |-> {}]

List(ps) == [form |-> "list", lo |-> 0, hi |-> 0, step |-> 1, parts |-> ps]

range(start, end) == start..end

\* parseFieldPart of a well-formed part
parseFieldPart(part, min, max) ==
  CASE part.form = "*/step" -> {v \in range(min, max) : (v - min) % part.step = 0}
    [] part.form = "range" -> range(part.lo, part.hi)
    [] part.form = "value" -> {part.lo}

\* parseField of a well-formed field; the sorted array without duplicates
\* it returns is kept as a set
parseField(field, min, max) ==
  CASE field.form = "*" -> range(min, max)
    [] field.form = "list" -> UNION {parseFieldPart(q, min, max) : q \in field.parts}
    [] OTHER -> parseFieldPart(field, min, max)

normalizeWeekdays(weekdays) == {IF d = 7 THEN 0 ELSE d : d \in weekdays}

parseCronExpression(e) ==
  [minute |-> parseField(e.minute, 0, 59),
   hour |-> parseField(e.hour, 0, 23),
   dayOfMonth |-> IF e.day.form = "L" THEN {} ELSE parseField(e.day, 1, 31),
   month |-> parseField(e.month, 1, 12),
   dayOfWeek |-> normalizeWeekdays(parseField(e.weekday, 0, 7)),
   isLastDayOfMonth |-> e.day.form = "L"]

\* nextDay.setDate(date.getDate() + 1); nextDay.getUTCMonth() !== date.getUTCMonth()
isLastDayOfMonth(date) == getUTCMonth1(date + 1440) # getUTCMonth1(date)

dayMatches(date, fields) ==
  IF fields.isLastDayOfMonth
    THEN isLastDayOfMonth(date)
    ELSE fields.dayOfMonth = {} \/ getUTCDate(date) \in fields.dayOfMonth

weekdayMatches(date, fields) ==
  fields.dayOfWeek = {} \/ getUTCDay(date) \in fields.dayOfWeek

dayIsSpecified(fields) ==
  fields.isLastDayOfMonth
    \/ (Cardinality(fields.dayOfMonth) > 0 /\ Cardinality(fields.dayOfMonth) < 31)

weekdayIsSpecified(fields) ==
  Cardinality(fields.dayOfWeek) > 0 /\ Cardinality(fields.dayOfWeek) < 7

\* The day/weekday part of matchesCronFields
matchesDayFields(date, fields) ==
  IF dayIsSpecified(fields) /\ weekdayIsSpecified(fields)
    THEN dayMatches(date, fields) \/ weekdayMatches(date, fields)
    ELSE dayMatches(date, fields) /\ weekdayMatches(date, fields)

matchesCronFields(date, fields) ==
  /\ getUTCMinutes(date) \in fields.minute
  /\ getUTCHours(date) \in fields.hour
  /\ getUTCMonth1(date) \in fields.month
  /\ matchesDayFields(date, fields)

MAX_ITERATIONS == 4 * 365 * 24 * 60

\* The cron expressions asked for
EveryQuarter == [minute |-> StarStep(15), hour |-> Star, day |-> Star, month |-> Star, weekday |-> Star]

Workdays == [minute |-> Value(0), hour |-> Value(9), day |-> Star, month |-> Star, weekday |-> Range(1, 5)]

FirstOrFriday == [minute |-> Value(30), hour |-> Value(12), day |-> Value(1), month |-> Star, weekday |-> Value(5)]

LastOfMonth == [minute |-> Value(0), hour |-> Value(0), day |-> LastDay, month |-> Star, weekday |-> Star]

LastOrSunday == [minute |-> Value(0), hour |-> Value(6), day |-> LastDay, month |-> Star, weekday |-> Value(7)]

LeapDay == [minute |-> Value(0), hour |-> Value(0), day |-> Value(29), month |-> Value(2), weekday |-> Star]

AnyDayOrMonday == [minute |-> Value(0), hour |-> Value(0), day |-> Range(1, 31), month |-> Star, weekday |-> Value(1)]

FifthOrAnyWeekday == [minute |-> Value(0), hour |-> Value(0), day |-> Value(5), month |-> Star, weekday |-> Range(0, 6)]

MidMonthList == [minute |-> List({Value(0), Value(30)}), hour |-> Value(0), day |-> List({Value(1), Range(14, 15)}),
                 month |-> Star, weekday |-> Star]

CronExpressions ==
  {EveryQuarter, Workdays, FirstOrFriday, LastOfMonth, LastOrSunday, LeapDay,
   AnyDayOrMonday, FifthOrAnyWeekday, MidMonthList}

\* Wed 28 Feb 2024 23:58:30.000, Sun 31 Dec 2023 23:59:59.999, Mon 12 Feb 2024 00:00:00.000
CronFroms ==
  {DateUTC(2024, 2, 28, 23, 58, 30000), DateUTC(2023, 12, 31, 23, 59, 59999),
   DateUTC(2024, 2, 12, 0, 0, 0)}

\* The interval and daily schedules asked for
Everys == {1, 7, 15, 30, 60, 90}

IntervalSchedules ==
  {[type |-> "every", every |-> n, unit |-> u, aligned |-> a] :
     n \in Everys, u \in {"seconds", "minutes", "hours"}, a \in BOOLEAN}
  \cup
  {[type |-> "every", every |-> n, unit |-> "days", aligned |-> a] : n \in {1, 2, 7}, a \in BOOLEAN}
  \cup
  {[type |-> "at", at |-> [hour |-> h, minute |-> m]] : h \in {0, 12, 23}, m \in {0, 34, 59}}

\* Date.UTC(1970, 0, 1 + d, h, mi, s, ms)
Instant(d, h, mi, s, ms) == (((d * 24 + h) * 60 + mi) * 60 + s) * 1000 + ms

IntervalFroms ==
  {Instant(0, 0, 0, 0, 0), Instant(0, 0, 0, 45, 0), Instant(0, 0, 0, 59, 999),
   Instant(0, 0, 56, 0, 0), Instant(0, 0, 59, 59, 999), Instant(0, 12, 34, 0, 0),
   Instant(0, 23, 0, 0, 1), Instant(0, 23, 59, 59, 999), Instant(1, 12, 34, 56, 789)}

\* getNextScheduledTime was just called: the schedule, `now`, and for a
\* cron schedule the fields parseCronExpression gave
calling(op, schedule, from) ==
  [op |-> op, schedule |-> schedule, from |-> from, state |-> "called",
   fields |-> IF op = "cron" THEN parseCronExpression(schedule) ELSE {},
   result |-> 0, iterations |-> 0, skipped |-> FALSE]

InitSchedule ==
  /\ deployment = [instances |-> {}, catalog |-> {}]
  /\ Constructed
  /\ loop = NoLoop
  /\ \/ \E sch \in IntervalSchedules : \E from \in IntervalFroms : calc = calling("interval", sch, from)
     \/ \E e \in CronExpressions : \E from \in CronFroms : calc = calling("cron", e, from)

\* getNextIntervalTime returns
IntervalReturn ==
  /\ calc.op = "interval"
  /\ calc.state = "called"
  /\ calc' = [calc EXCEPT !.state = "returned", !.result = getNextIntervalTime(calc.schedule, calc.from)]
  /\ UNCHANGED <<loop, processVars>>

\* getNextCronOccurrence up to its loop: setSeconds(0, 0), setMinutes(getMinutes() + 1)
CronBegin ==
  /\ calc.op = "cron"
  /\ calc.state = "called"
  /\ calc' = [calc EXCEPT !.state = "searching", !.result = calc.from.min + 1]
  /\ UNCHANGED <<loop, processVars>>

\* A date the cron expression as written asks for: minute, hour and month
\* are in their sets, and the day and the weekday match - both of them when
\* one of the two fields is written `*`, one of them when neither is.
wants(e, date) ==
  LET fields == parseCronExpression(e)
      dayOk == IF e.day.form = "L" THEN isLastDayOfMonth(date)
               ELSE getUTCDate(date) \in fields.dayOfMonth
      weekdayOk == getUTCDay(date) \in fields.dayOfWeek
  IN /\ getUTCMinutes(date) \in fields.minute
     /\ getUTCHours(date) \in fields.hour
     /\ getUTCMonth1(date) \in fields.month
     /\ IF e.day.form # "*" /\ e.weekday.form # "*"
          THEN dayOk \/ weekdayOk
          ELSE dayOk /\ weekdayOk

\* One iteration of the loop of getNextCronOccurrence
CronStep ==
  /\ calc.op = "cron"
  /\ calc.state = "searching"
  /\ calc' =
       IF calc.iterations >= MAX_ITERATIONS
         THEN [calc EXCEPT !.state = "thrown"]
         ELSE IF matchesCronFields(calc.result, calc.fields)
           THEN [calc EXCEPT !.state = "returned", !.iterations = @ + 1]
           ELSE [calc EXCEPT !.result = @ + 1, !.iterations = @ + 1,
                             !.skipped = @ \/ wants(calc.schedule, calc.result)]
  /\ UNCHANGED <<loop, processVars>>

NextSchedule ==
  \/ IntervalReturn
  \/ CronBegin
  \/ CronStep

SpecSchedule == InitSchedule /\ [][NextSchedule]_vars

\* ------------------------------------------------------------------------
\* getNextCronOccurrence over the whole of its search: up to MAX_ITERATIONS
\* minutes from `from`. The loop tests one minute per iteration; the month
\* and the day tests of matchesCronFields give the same answer for every
\* minute of a UTC month or day, so the iterations over the rest of a month
\* or day that these tests rule out are taken in one step, with the
\* iteration count the loop would have reached.
\* ------------------------------------------------------------------------

February30 == [minute |-> Value(0), hour |-> Value(9), day |-> Value(30), month |-> Value(2), weekday |-> Star]

April31 == [minute |-> Value(0), hour |-> Value(0), day |-> Value(31), month |-> List({Value(4), Value(6)}), weekday |-> Star]

CronSearchExpressions == {Workdays, LastOfMonth, LeapDay, February30, April31}

\* Thu 29 Feb 2024 00:00:00.050 and 23:59, Fri 1 Mar 2024 00:00,
\* Sat 1 Feb 2025 10:00, Wed 29 Feb 2096 00:00 (2100 is not a leap year)
CronSearchFroms ==
  {DateUTC(2024, 2, 29, 0, 0, 50), DateUTC(2024, 2, 29, 23, 59, 0), DateUTC(2024, 3, 1, 0, 0, 0),
   DateUTC(2025, 2, 1, 10, 0, 0), DateUTC(2096, 2, 29, 0, 0, 0)}

InitCronSearch ==
  /\ deployment = [instances |-> {}, catalog |-> {}]
  /\ Constructed
  /\ loop = NoLoop
  /\ \E e \in CronSearchExpressions : \E from \in CronSearchFroms : calc = calling("cron", e, from)

\* The first minute of the UTC month after the month of date
nextMonthStart(date) ==
  LET c == civil(date \div 1440)
  IN 1440 * (IF c.month = 12 THEN daysFromCivil(c.year + 1, 1, 1)
             ELSE daysFromCivil(c.year, c.month + 1, 1))

\* How many minutes from date on matchesCronFields rejects for the same
\* reason as date: the rest of the month when the month is not in the set,
\* the rest of the day when the day and weekday test fails, else one minute
rejectedFrom(date, fields) ==
  IF getUTCMonth1(date) \notin fields.month THEN nextMonthStart(date) - date
  ELSE IF ~matchesDayFields(date, fields) THEN 1440 - (date % 1440)
  ELSE 1

\* The loop of getNextCronOccurrence: the cap, the match, or the iterations
\* over the minutes rejected from the candidate on (never past the cap)
CronIterations ==
  /\ calc.op = "cron"
  /\ calc.state = "searching"
  /\ calc' =
       IF calc.iterations >= MAX_ITERATIONS
         THEN [calc EXCEPT !.state = "thrown"]
         ELSE IF matchesCronFields(calc.result, calc.fields)
           THEN [calc EXCEPT !.state = "returned", !.iterations = @ + 1]
           ELSE LET n == Min(rejectedFrom(calc.result, calc.fields), MAX_ITERATIONS - calc.iterations)
                IN [calc EXCEPT !.result = @ + n, !.iterations = @ + n,
                                !.skipped = @ \/ \E k \in 0..(IF n > 1440 THEN 0 ELSE n - 1) :
                                                   wants(calc.schedule, calc.result + k)]
  /\ UNCHANGED <<loop, processVars>>

NextCronSearch ==
  \/ CronBegin
  \/ CronIterations

SpecCronSearch == InitCronSearch /\ [][NextCronSearch]_vars

\* ------------------------------------------------------------------------
\* The executor on its own: one call of executeWithTimeout.
\*
\* An error message is kept as the sequence of its words.
\* ------------------------------------------------------------------------
RECURSIVE includes(_, _)
\* String.prototype.includes
includes(message, words) ==
  IF Len(message) < Len(words) THEN FALSE
  ELSE SubSeq(message, 1, Len(words)) = words \/ includes(Tail(message), words)

TimedOutWords == <<"timed", "out">>

milliseconds(timeout) == IF timeout = 100 THEN "100ms" ELSE "5000ms"

\* new Error(`Job "${jobName}" timed out after ${timeout}ms`)
timeoutError(jobName, timeout) ==
  [from |-> "timeout", message |-> <<"Job", jobName, "timed", "out", "after", milliseconds(timeout)>>]

\* The messages of the errors a job body fails with
JobMessages ==
  {<<"Normal", "failure">>, <<"Connection", "timed", "out">>, <<"request", "timed">>, <<>>}

\* How the job body behaves: it returns a value, throws before it returns
\* a promise, returns a promise that rejects, or never settles.
JobBehaviours ==
  {[outcome |-> o, message |-> <<>>] : o \in {"returns", "hangs"}}
  \cup {[outcome |-> o, message |-> msg] : o \in {"throws", "rejects"}, msg \in JobMessages}

\* options.timeout; an option left out behaves as 0
Timeouts == {0, 100, 5000}

NoResult == [success |-> FALSE, timedOut |-> FALSE, error |-> "none"]

\* The return of executeWithTimeout for a job that returned
succeeded(x) ==
  [x EXCEPT !.state = "returned", !.result = [success |-> TRUE, timedOut |-> FALSE, error |-> "none"]]

\* The catch block of executeWithTimeout for the error err
failed(x, err) ==
  LET timedOut == includes(err.message, TimedOutWords)
  IN [x EXCEPT !.state = "returned",
               !.result = [success |-> FALSE, timedOut |-> timedOut, error |-> err.from],
               !.onTimeoutCalls = IF timedOut /\ x.hasOnTimeout THEN @ + 1 ELSE @]

\* executeWithTimeout(job, intendedAt, jobName, {timeout, onTimeout}) up to
\* its await: with a timeout the timer is armed and the job is called.
executing(job, timeout, hasOnTimeout) ==
  [op |-> "execute", job |-> job, timeout |-> timeout, hasOnTimeout |-> hasOnTimeout,
   state |-> "awaiting", limited |-> timeout > 0, timerArmed |-> timeout > 0,
   completed |-> FALSE, jobSettled |-> FALSE, result |-> NoResult, onTimeoutCalls |-> 0]

InitExecutor ==
  /\ deployment = [instances |-> {}, catalog |-> {}]
  /\ Constructed
  /\ loop = NoLoop
  /\ \E job \in JobBehaviours, timeout \in Timeouts, hasOnTimeout \in BOOLEAN :
       calc = executing(job, timeout, hasOnTimeout)

\* The job body settles.  Under a timeout a job that threw leaves the
\* timer armed; a promise that settles first completes the race and clears
\* the timer, and one that settles after the timeout is ignored.
JobSettles ==
  /\ calc.op = "execute"
  /\ ~calc.jobSettled
  /\ calc.job.outcome # "hangs"
  /\ LET x == [calc EXCEPT !.jobSettled = TRUE]
         y == IF calc.limited /\ calc.job.outcome # "throws"
                THEN [x EXCEPT !.completed = TRUE, !.timerArmed = FALSE]
                ELSE x
         err == [from |-> "job", message |-> calc.job.message]
     IN calc' = IF calc.state = "returned" \/ (calc.limited /\ calc.completed) THEN x
                ELSE IF calc.job.outcome = "returns" THEN succeeded(y)
                ELSE failed(y, err)
  /\ UNCHANGED <<loop, processVars>>

\* The timeout of executeWithTimeoutLimit comes due.
TimeoutFires ==
  /\ calc.op = "execute"
  /\ calc.timerArmed
  /\ LET x == [calc EXCEPT !.timerArmed = FALSE, !.completed = TRUE]
     IN calc' = IF calc.completed \/ calc.state = "returned" THEN x
                ELSE failed(x, timeoutError("job", calc.timeout))
  /\ UNCHANGED <<loop, processVars>>

NextExecutor ==
  \/ JobSettles
  \/ TimeoutFires

SpecExecutor == InitExecutor /\ [][NextExecutor]_vars

\* ------------------------------------------------------------------------
\* Vocabulary of the properties
\* ------------------------------------------------------------------------
PersistNames == {c.name : c \in {c \in Catalog : c.persist}}

EntryNames(es) == [k \in 1..Len(es) |-> es[k].name]

Abs(x) == IF x < 0 THEN -x ELSE x

\* The time between two consecutive occurrences of an interval schedule.
occurrenceSpacing(schedule) == getIntervalMs(schedule.every, schedule.unit)

\* Firings of job n on instance i whose insert was rejected as a duplicate.
Skipped(i, n) ==
  firings[i][n] - bodyCount[i][n]
    - Cardinality({e \in runningJobs[i] : e.cfg.name = n /\ e.pc = "insert"})

\* ------------------------------------------------------------------------
\* Properties
\* ------------------------------------------------------------------------

\* C1: for a persisted job and each key (name, intendedAt), at most one
\* record is ever inserted, whatever the interleaving of the instances'
\* inserts, and the job body of that key is run only by the instance whose
\* insert succeeded.
C1_LeaseUniqueness ==
  /\ \A a, b \in 1..Len(docs) :
       (docs[a].name = docs[b].name /\ docs[a].intendedAt = docs[b].intendedAt) => a = b
  /\ \A f \in bodyLog :
       f[2] \in PersistNames =>
         \E k \in 1..Len(docs) :
           docs[k].name = f[2] /\ docs[k].intendedAt = f[3] /\ docs[k].by = f[1]

\* C2: two instances that hold the same persisted job run its body for the
\* same occurrences: two keys for which different instances ran the body
\* are either equal or at least one full interval of the schedule apart.
C2_OncePerOccurrence ==
  \A c \in Catalog :
    c.persist =>
      \A f, g \in bodyLog :
        (f[2] = c.name /\ g[2] = c.name /\ f[1] # g[1] /\ f[3] # g[3])
          => Abs(f[3] - g[3]) >= occurrenceSpacing(c.schedule)

\* C3: the step in which a lease insert is rejected with a duplicate-key
\* error ends the firing: the body is not run, onError is not called, no
\* record is inserted or updated, and the timers and entries stay as they are.
C3_DuplicateSkips ==
  [][\A i \in Instances : \A e \in runningJobs[i] :
       (InsertLease(i, e) /\ DuplicateKey(e.cfg.name, e.at)) =>
         /\ runningJobs'[i] = runningJobs[i] \ {e}
         /\ bodyCount' = bodyCount
         /\ bodyLog' = bodyLog
         /\ bodyFails' = bodyFails
         /\ onErrorCalls' = onErrorCalls
         /\ docs' = docs
         /\ timers' = timers
         /\ entries' = entries
         /\ running' = running]_vars

\* C3 witness: a firing was skipped on a duplicate key and the timer of its
\* job is still armed.
C3_Witness ==
  \E i \in Instances, n \in Names :
    /\ Skipped(i, n) > 0
    /\ \E t \in timers[i] : t.cfg.name = n /\ t.kind = "fire"

\* C4: a job with persist=false never has a history record inserted or
\* updated, and every firing on every instance runs the job body.
C4_NoPersistNoLease ==
  \A c \in Catalog :
    ~c.persist =>
      /\ \A k \in 1..Len(docs) : docs[k].name # c.name
      /\ \A i \in Instances :
           /\ bodyCount[i][c.name] = firings[i][c.name]
           /\ \A e \in runningJobs[i] : e.cfg = c => (e.pc = "body" /\ e.doc = NoDoc)

\* C4 witness: two instances ran the body of a persist=false job for the
\* same intendedAt.
C4_Witness ==
  \E f, g \in bodyLog :
    f[1] # g[1] /\ f[2] = g[2] /\ f[3] = g[3] /\ f[2] \notin PersistNames

\* C5: when a job body fails, onError is invoked exactly once for that
\* firing (instance, name, intendedAt) when the job has one, the record of
\* the firing gets finishedAt and error and no result, and the step leaves
\* the timers, the entries and the running flag as they are.
C5_BodyFailure ==
  /\ [](\A f \in DOMAIN onErrorCalls :
          onErrorCalls[f] =
            IF \E c \in Catalog : c.name = f[2] /\ c.hasOnError THEN bodyFails[f] ELSE 0)
  /\ [](\A d \in 1..Len(docs) :
          IF d \in failedDocs
            THEN \/ \E e \in runningJobs[docs[d].by] : e.doc = d /\ e.pc = "updateError"
                 \/ docs[d].finished /\ docs[d].error /\ ~docs[d].result
            ELSE ~docs[d].error)
  /\ [][bodyFails' # bodyFails =>
          (timers' = timers /\ entries' = entries /\ running' = running)]_vars

\* C5 witness: a body failed, its record is finished with the error, and
\* onError was invoked once for the firing.
C5_Witness ==
  \E d \in 1..Len(docs) :
    /\ d \in failedDocs
    /\ docs[d].finished /\ docs[d].error
    /\ bodyFails[Firing(docs[d].by, docs[d].name, docs[d].intendedAt)] = 1
    /\ onErrorCalls[Firing(docs[d].by, docs[d].name, docs[d].intendedAt)] = 1

\* C6: pause() leaves the instance idle with every entry registered and no
\* entry timer, and from its return until the next call of start() no
\* firing begins on the instance.
C6_PauseQuiesces ==
  [][\A i \in Instances :
       /\ Pause(i) =>
            /\ ~running'[i]
            /\ EntryNames(entries'[i]) = EntryNames(entries[i])
            /\ EntryTimerIds(entries'[i]) = {}
       /\ afterPause[i] => firings'[i] = firings[i]]_vars

\* C7: stop() leaves the instance idle with an empty entry map, and no
\* timer that exists when it resolves starts a firing afterwards.
C7_StopQuiesces ==
  [][\A i \in Instances :
       /\ Stop(i) => (~running'[i] /\ entries'[i] = <<>>)
       /\ afterStop[i] => firings'[i] = firings[i]]_vars

\* C8: pauseJob(name) on a running instance leaves the job paused without a
\* timer and every other entry and timer as it was, and until
\* resumeJob(name) no firing of the job begins on the instance.
C8_PauseJobQuiesces ==
  [][\A i \in Instances, n \in Names :
       /\ (PauseJob(i, n) /\ running[i]) =>
            LET k == Idx(entries[i], n)
            IN /\ entries'[i][k].paused
               /\ entries'[i][k].timer = NoTimer
               /\ \A j \in 1..Len(entries[i]) : j # k => entries'[i][j] = entries[i][j]
               /\ timers'[i] = {t \in timers[i] : t.id # entries[i][k].timer}
       /\ afterPauseJob[i][n] = "paused" => firings'[i][n] = firings[i][n]]_vars

\* C9: resumeJob(name) on a paused job clears paused and creates one timer
\* for it when the instance is running and none when it is idle; on a job
\* that is not paused it changes nothing.  No other entry changes.
C9_ResumeJob ==
  [][\A i \in Instances, n \in Names :
       ResumeJob(i, n) =>
         LET k == Idx(entries[i], n)
             old == entries[i][k]
             new == entries'[i][k]
         IN /\ Len(entries'[i]) = Len(entries[i])
            /\ \A j \in 1..Len(entries[i]) : j # k => entries'[i][j] = entries[i][j]
            /\ IF old.paused
                 THEN /\ ~new.paused
                      /\ IF running[i]
                           THEN /\ new.timer # NoTimer
                                /\ timers[i] \subseteq timers'[i]
                                /\ Cardinality(timers'[i]) = Cardinality(timers[i]) + 1
                                /\ \E t \in timers'[i] \ timers[i] :
                                     t.id = new.timer /\ t.cfg = old.cfg
                           ELSE new.timer = NoTimer /\ timers'[i] = timers[i]
                 ELSE new = old /\ timers'[i] = timers[i]]_vars

\* C9 witness: a paused job was resumed on a running instance and has its
\* timer.
C9_Witness ==
  \E i \in Instances, n \in Names :
    /\ afterPauseJob[i][n] = "resumed"
    /\ running[i]
    /\ Has(entries[i], n)
    /\ entries[i][Idx(entries[i], n)].timer # NoTimer

\* C10: remove(name) drops the entry and its timer and leaves every other
\* entry and timer as it was, and until the name is added again no firing
\* of that job begins on the instance.
C10_RemoveQuiesces ==
  [][\A i \in Instances, n \in Names :
       /\ Remove(i, n) =>
            LET k == Idx(entries[i], n)
            IN /\ ~Has(entries'[i], n)
               /\ entries'[i] = Without(entries[i], n)
               /\ timers'[i] = {t \in timers[i] : t.id # entries[i][k].timer}
       /\ afterRemove[i][n] => firings'[i][n] = firings[i][n]]_vars

\* C11: add(config) with a name that is registered already throws
\* JobAlreadyExists and leaves every entry (config, timer, paused flag),
\* every timer and the running flag as they are, on a running and on an
\* idle instance.
C11_AddExistingRejected ==
  [][\A i \in Instances : \A cfg \in Catalog :
       (Has(entries[i], cfg.name) /\ (Add(i, cfg) \/ AddExisting(i, cfg))) =>
         /\ lastCall' = "JobAlreadyExists"
         /\ entries' = entries
         /\ timers' = timers
         /\ running' = running]_vars

\* C11 witness: add() was rejected on a running instance whose entry of
\* that name has its timer.
C11_Witness ==
  /\ lastCall = "JobAlreadyExists"
  /\ \E i \in Instances :
       /\ deployment.instances = {i}
       /\ running[i]
       /\ \E k \in 1..Len(entries[i]) : entries[i][k].timer # NoTimer

\* C12: remove, pauseJob and resumeJob with a name that is not registered
\* throw JobNotFound and change no entry, no timer and no running flag;
\* isJobPaused is false for such a name.
C12_UnknownNameRejected ==
  /\ [][\A i \in Instances : \A n \in Names :
          (/\ calls' # calls
           /\ ~Has(entries[i], n)
           /\ \/ Remove(i, n) \/ RemoveMissing(i, n)
              \/ PauseJob(i, n) \/ PauseJobMissing(i, n)
              \/ ResumeJob(i, n) \/ ResumeJobMissing(i, n)) =>
            /\ lastCall' = "JobNotFound"
            /\ entries' = entries
            /\ timers' = timers
            /\ running' = running]_vars
  /\ [](\A i \in Instances : \A n \in Names : ~Has(entries[i], n) => ~isJobPaused(i, n))

\* C12 witness: a call with an unknown name was rejected on a running
\* instance that holds another job with its timer.
C12_Witness ==
  /\ lastCall = "JobNotFound"
  /\ \E i \in Instances :
       /\ deployment.instances = {i}
       /\ running[i]
       /\ \E n \in Names : ~Has(entries[i], n)
       /\ \E k \in 1..Len(entries[i]) : entries[i][k].timer # NoTimer

\* C13: start() on a running instance changes nothing: no timer is
\* created, replaced or cancelled, no entry changes, the instance stays
\* running and no initialization or start is left pending.
C13_StartIdempotent ==
  [][\A i \in Instances :
       (running[i] /\ StartBegin(i)) =>
         /\ timers' = timers
         /\ entries' = entries
         /\ running' = running
         /\ pendingStarts' = pendingStarts
         /\ initPromise' = initPromise]_vars

\* C13 witness: start() was called on a running instance that has a timer.
C13_Witness ==
  /\ lastCall = "AlreadyRunning"
  /\ \E i \in Instances :
       /\ deployment.instances = {i}
       /\ running[i]
       /\ timers[i] # {}

\* C14: the paused flag of an entry changes only in pauseJob and resumeJob
\* of that entry, and start() leaves every paused entry without a timer and
\* creates no timer for its job.
C14_PausedPreserved ==
  /\ [][\A i \in Instances : \A n \in Names :
          (/\ Has(entries[i], n)
           /\ Has(entries'[i], n)
           /\ entries'[i][Idx(entries'[i], n)].paused # entries[i][Idx(entries[i], n)].paused) =>
            (PauseJob(i, n) \/ ResumeJob(i, n))]_vars
  /\ [][\A i \in Instances :
          StartFinish(i) =>
            \A k \in 1..Len(entries[i]) :
              entries[i][k].paused =>
                /\ entries'[i][k] = entries[i][k]
                /\ entries'[i][k].timer = NoTimer
                /\ \A t \in timers'[i] \ timers[i] : t.cfg.name # entries[i][k].name]_vars

\* C14 witness: a job paused while its instance was idle is still paused
\* and without a timer after start() made the instance running.
C14_Witness ==
  \E i \in Instances, n \in Names :
    /\ running[i]
    /\ Has(entries[i], n)
    /\ entries[i][Idx(entries[i], n)].paused
    /\ entries[i][Idx(entries[i], n)].timer = NoTimer
    /\ afterPauseJob[i][n] = "no"

C16_InFlightNotCancelled ==
  /\ [][\A i \in Instances :
          (Pause(i) \/ Stop(i) \/ \E n \in Names : PauseJob(i, n) \/ Remove(i, n)) =>
            (runningJobs' = runningJobs /\ docs' = docs)]_vars
  /\ [](\A i \in Instances : \A e \in runningJobs[i] :
          MicrotasksDrained =>
            ENABLED (InsertLease(i, e) \/ BodyFinish(i, e, TRUE) \/ UpdateHistory(i, e)))
  /\ [](\A d \in 1..Len(docs) :
          ~docs[d].finished => \E e \in runningJobs[docs[d].by] : e.doc = d)

\* C16 witness: after stop() left the instance without any timer, the
\* execution of an earlier firing is writing the outcome of its body.
C16_Witness ==
  \E i \in Instances :
    /\ afterStop[i]
    /\ timers[i] = {}
    /\ \E e \in runningJobs[i] : e.doc # NoDoc /\ e.pc \in {"updateResult", "updateError"}

\* The schedule function of the loop fails on every call.
AlwaysFails(l) == l.nextFn.kind \in {"throws", "invalid", "past"}

C18_BoundedRetries ==
  (loop.impl = "scheduleJob" /\ loop.nextFn.kind = "throws" /\ ~loop.cleared) =>
    /\ loop.attempts <= DefaultMaxConsecutiveFailures
    /\ loop.attempts = DefaultMaxConsecutiveFailures => loop.timeout = NoTimeout

\* C19: a timeout for a delay above MAX_DELAY is armed for exactly
\* MAX_DELAY and its callback does not run the job; a timeout that runs
\* the job is armed for the whole delay, so the job never runs before the
\* computed next instant.
C19_ClampedNeverExecutes ==
  /\ [](loop.timeout.kind = "recheck" =>
          /\ loop.timeout.delay = Ms(MAX_SETTIMEOUT_DELAY)
          /\ DurLT(Ms(MAX_SETTIMEOUT_DELAY), loop.timeout.target))
  /\ [](loop.timeout.kind = "fire" =>
          /\ loop.timeout.delay = loop.timeout.target
          /\ ~DurLT(Ms(MAX_SETTIMEOUT_DELAY), loop.timeout.delay))
  /\ [](~loop.early)
  /\ [][loop.timeout.kind # "fire" => loop'.executions = loop.executions]_vars

\* C19 witness: a boundary more than MAX_DELAY ahead: a clamped timeout
\* was armed and the job ran later.
C19_Witness ==
  /\ loop.nextFn.kind = "fixed"
  /\ loop.clamps = 1
  /\ loop.executions > 0

\* C20: once a timeout was clamped, the job is executed eventually unless
\* the timer is cleared.
C20_DeferredNotDropped ==
  loop.timeout.kind = "recheck" ~> (loop.executions > 0 \/ loop.done)

\* C21: clear() is final and idempotent.  A call of clear(), between two
\* callbacks (a timeout of a computed date armed, or a backoff or retry
\* wait pending) or from inside the executed function, leaves the loop done
\* with its current timeout cancelled and without a new scheduling pass;
\* after it the function is never invoked, scheduleNext never gets past its
\* `done` check and no timeout is armed (a pending retry wait can only go
\* away); and a further clear() changes nothing.
C21_ClearFinal ==
  /\ [][loop'.clearCalls # loop.clearCalls =>
          /\ loop'.done /\ loop'.cleared
          /\ loop'.timeout.kind \notin {"fire", "recheck", "backoff"}
          /\ loop'.timeout \in {loop.timeout, NoTimeout}
          /\ loop'.attempts = loop.attempts]_vars
  /\ [][loop.cleared =>
          /\ loop'.done /\ loop'.cleared
          /\ loop'.executions = loop.executions
          /\ loop'.attempts = loop.attempts
          /\ loop'.timeout \in {loop.timeout, NoTimeout}]_vars
  /\ [](~loop.ranAfterClear /\ ~loop.scheduledAfterClear)
  /\ [][(loop.cleared /\ loop'.clearCalls # loop.clearCalls) =>
          loop' = [loop EXCEPT !.clearCalls = loop'.clearCalls]]_vars

\* C21 witness: the executed function called clear(), clear() was called
\* once more, and the loop is done without a timeout after one execution.
C21_Witness ==
  /\ loop.clearedAt = "execute"
  /\ loop.clearCalls = 2
  /\ loop.executions = 1
  /\ loop.done
  /\ loop.timeout = NoTimeout

\* C22: a store error of the outcome update is swallowed: onError is
\* invoked only for firings whose job body failed, and the promise of no
\* firing rejects.
C22_UpdateErrorSwallowed ==
  /\ \A f \in DOMAIN onErrorCalls : onErrorCalls[f] <= bodyFails[f]
  /\ rejected = {}

\* C23: every intendedAt passed to a job body is a whole second, and it is
\* the intendedAt of the record the firing inserted: an execution that
\* holds a record runs its body with the key of that record, and every
\* body run of a persisted job has the record of its instance under the
\* same key.
C23_IntendedAtIsLeaseKey ==
  /\ \A f \in bodyLog : f[3] % 1000 = 0
  /\ \A d \in 1..Len(docs) : docs[d].intendedAt % 1000 = 0
  /\ \A i \in Instances : \A e \in runningJobs[i] :
       /\ e.at % 1000 = 0
       /\ e.doc # NoDoc =>
            (docs[e.doc].intendedAt = e.at /\ docs[e.doc].name = e.cfg.name /\ docs[e.doc].by = i)
       /\ e.pc = "body" => Firing(i, e.cfg.name, e.at) \in bodyLog
  /\ \A f \in bodyLog :
       f[2] \in PersistNames =>
         \E k \in 1..Len(docs) :
           docs[k].name = f[2] /\ docs[k].intendedAt = f[3] /\ docs[k].by = f[1]

\* C23 witness: the drift job was scheduled at half past a second, so its
\* nextRun carries 500 ms; its body ran with the record's whole-second key.
C23_Witness ==
  /\ StartTime % 1000 = 500
  /\ \E d \in 1..Len(docs) :
       /\ docs[d].name = JobA.name
       /\ ~JobA.schedule.aligned
       /\ Firing(docs[d].by, docs[d].name, docs[d].intendedAt) \in bodyLog

\* C24: the next instant of every valid schedule - interval (drift or
\* aligned, any unit, every >= 1), daily at, cron - is strictly later than
\* the instant it was asked from.
C24_NextStrictlyLater ==
  calc.op # "none" /\ calc.state = "returned" =>
    IF calc.op = "cron" THEN calc.result > calc.from.min ELSE calc.result > calc.from

\* C25: the next instant of an aligned interval in minutes has seconds and
\* ms zero and a minute of the hour that is a multiple of `every`.
C25_AlignedMinutes ==
  (/\ calc.op = "interval"
   /\ calc.state = "returned"
   /\ calc.schedule.type = "every"
   /\ calc.schedule.unit = "minutes"
   /\ calc.schedule.aligned) =>
    /\ calc.result % 60000 = 0
    /\ ((calc.result % 3600000) \div 60000) % calc.schedule.every = 0

\* C26: the cron matcher accepts a date exactly when minute, hour and
\* month are in their sets and the day/weekday rule holds as the
\* expression is written: when neither the day field nor the weekday field
\* is written `*` (1-31 and 0-6 included), the day or the weekday matches;
\* when one of them is `*`, both match.
C26_DayOrWeekday ==
  (calc.op = "cron" /\ calc.state \in {"searching", "returned"}) =>
    (matchesCronFields(calc.result, calc.fields) <=> wants(calc.schedule, calc.result))

\* C27: getNextCronOccurrence returns a whole minute strictly after `from`
\* that the expression asks for, and passes over no minute that the
\* expression asks for.
C27_EarliestOccurrence ==
  calc.op = "cron" =>
    /\ ~calc.skipped
    /\ calc.state = "returned" =>
         (calc.result > calc.from.min /\ wants(calc.schedule, calc.result))

\* C28: the executor reports timedOut, and has called onTimeout (when
\* given), exactly when the failure is its own timeout signal; a job that
\* fails with its own error, whatever the message and with or without a
\* timeout, gives success=false, timedOut=false and no onTimeout call.
C28_TimedOutIffTimeoutSignal ==
  (calc.op = "execute" /\ calc.state = "returned") =>
    /\ calc.result.timedOut <=> calc.result.error = "timeout"
    /\ calc.onTimeoutCalls = IF calc.result.error = "timeout" /\ calc.hasOnTimeout THEN 1 ELSE 0
    /\ calc.result.error = "job" => (~calc.result.success /\ ~calc.result.timedOut)

\* C29: the statistics of getJobStatus are over completed records:
\* successCount is the number of records finished without error,
\* errorCount the number finished with error, and lastRun.success holds
\* only for a last run that finished without error.
C29_StatsOverCompletedRows ==
  \A i \in Instances : \A n \in Names :
    (Has(entries[i], n) /\ collection[i]) =>
      LET status == getJobStatus(i, n)
          rows == {d \in 1..Len(docs) : docs[d].name = n}
      IN /\ status.stats.successCount =
              Cardinality({d \in rows : docs[d].finished /\ ~docs[d].error})
         /\ status.stats.errorCount =
              Cardinality({d \in rows : docs[d].finished /\ docs[d].error})
         /\ (status.lastRun.exists /\ status.lastRun.success) => status.lastRun.finishedAt

\* C30: pause, pauseJob, resumeJob, isJobPaused, isRunning, getJobNames,
\* healthCheck, getMetrics and nextScheduledAt send no request to the store
\* and leave the store, the executions in flight and the initialization as
\* they are, in every lifecycle state.
C30_StoreUntouched ==
  [][\A i \in Instances :
       /\ (Pause(i) \/ \E n \in Names : \/ PauseJob(i, n) \/ PauseJobMissing(i, n)
                                        \/ ResumeJob(i, n) \/ ResumeJobMissing(i, n)) =>
            (storeVars' = storeVars /\ runningJobs' = runningJobs /\ initVars' = initVars)
       /\ \A method \in QueryMethods \ {"getJobStatus"} : \A n \in Names :
            Query(i, method, n) =>
              /\ calc'.storeRequests = 0
              /\ storeVars' = storeVars /\ runningJobs' = runningJobs /\ initVars' = initVars]_vars

\* C30 witness: nextScheduledAt was called for a registered job on a
\* running instance whose collection holds a record, with an execution in
\* flight.
C30_Witness ==
  /\ calc.op = "query"
  /\ calc.method = "nextScheduledAt"
  /\ calc.storeRequests = 0
  /\ docs # <<>>
  /\ \E i \in Instances : running[i] /\ collection[i] /\ entries[i] # <<>> /\ runningJobs[i] # {}

\* C31: at every moment a registered entry has at most one live timer loop
\* on its instance, whatever the interleaving of start, pause, stop, add,
\* remove, pauseJob and resumeJob.
C31_OneTimerPerEntry ==
  \A i \in Instances : \A k \in 1..Len(entries[i]) :
    Cardinality({t \in timers[i] : t.cfg.name = entries[i][k].name}) <= 1

\* C32: whenever an instance is not running (before its first start, after
\* pause or stop, after a start() that failed) it has no live timer, so
\* none of its jobs can begin a firing.
C32_NotRunningNoTimer ==
  \A i \in Instances : ~running[i] => timers[i] = {}

\* C34: add(config) with an ill-formed schedule reports the error to its
\* caller, on an idle and on a running instance alike, and is atomic: the
\* job is not registered and no timer was created for it.
C34_AddIllFormedAtomic ==
  [][\A i \in Instances :
       Add(i, JobX) =>
         /\ lastCall' = "ScheduleError"
         /\ ~Has(entries'[i], JobX.name)
         /\ timers'[i] = timers[i]]_vars

\* C33: whenever an instance is running, a registered entry has a live
\* timer exactly when it is not paused; getMetrics then satisfies
\* scheduledJobCount + pausedJobCount = jobCount and healthCheck reports no
\* job as not scheduled.
C33_TimerIffNotPaused ==
  \A i \in Instances :
    running[i] =>
      /\ \A k \in 1..Len(entries[i]) :
           (\E t \in timers[i] : t.cfg.name = entries[i][k].name) <=> ~entries[i][k].paused
      /\ getMetrics(i).scheduledJobCount + getMetrics(i).pausedJobCount = getMetrics(i).jobCount
      /\ \A n \in Names : <<"is not scheduled", n>> \notin healthCheck(i).issues

\* C35: when start() has resolved on an instance (it is running) the
\* unique index on (intendedAt, name) exists, and no lease insert is ever
\* in flight without it.
C35_IndexBeforeLease ==
  \A i \in Instances :
    /\ running[i] => uniqueIndex = "ready"
    /\ \A e \in runningJobs[i] : e.pc = "insert" => uniqueIndex = "ready"

C37_ConsecutiveFailuresOnly ==
  loop.impl = "scheduleRecurring" =>
    /\ loop.timeout.kind \in {"fire", "recheck"} => loop.consecutiveFailures = 0
    /\ loop.consecutiveFailures <= loop.failedInARow
    /\ loop.circuitBreaks > 0 => loop.failedInARow >= loop.max

\* C37 witness: with the default limit, more attempts failed in total than
\* the limit, separated by successful ones, and the circuit did not break.
C37_Witness ==
  /\ loop.impl = "scheduleRecurring"
  /\ loop.nextFn.kind = "flaky"
  /\ loop.onSchedule = "returns"
  /\ loop.max = DefaultMaxConsecutiveFailures
  /\ loop.failures > loop.max
  /\ loop.executions > 0
  /\ loop.circuitBreaks = 0
  /\ loop.timeout.kind = "fire"

\* C38: an error the executed function throws in scheduleRecurring is
\* passed to onError and is not counted as a scheduling failure: after the
\* callback the counter holds only the failure of the scheduling attempt
\* that followed, the circuit breaks only if that attempt reached the limit
\* by itself, and otherwise the next occurrence or a retry is armed.
C38_ExecuteErrorNotCounted ==
  [][loop'.executeErrors # loop.executeErrors =>
       /\ loop'.executeErrorsReported = loop.executeErrorsReported + 1
       /\ loop'.consecutiveFailures = loop'.failedInARow
       /\ loop'.circuitBreaks > loop.circuitBreaks => (loop'.failedInARow = 1 /\ loop.max = 1)
       /\ loop'.failedInARow = 0 => (loop'.cleared \/ loop'.timeout.kind \in {"fire", "recheck"})
       /\ loop'.failedInARow > 0 =>
            (loop'.timeout.kind = "backoff" \/ loop'.circuitBreaks > loop.circuitBreaks)]_vars

\* C38 witness: the executed function threw twice, both errors went to
\* onError, and the timeout of the next occurrence is armed with the
\* counter at 0 and the circuit closed.
C38_Witness ==
  /\ loop.impl = "scheduleRecurring"
  /\ loop.executeErrors = 2
  /\ loop.executeErrorsReported = 2
  /\ loop.executions = 2
  /\ loop.consecutiveFailures = 0
  /\ loop.circuitBreaks = 0
  /\ loop.timeout.kind = "fire"

\* C39: scheduleRecurring never retries without end: at most
\* maxConsecutiveFailures attempts in a row end in an error, whether the
\* error comes from the schedule function or from onSchedule, and a loop
\* that waits for a retry arms the timeout of a date, breaks the circuit or
\* is cleared.
C39_NoEndlessRetries ==
  /\ [](loop.impl = "scheduleRecurring" => loop.failedInARow <= loop.max)
  /\ (loop.impl = "scheduleRecurring" /\ loop.timeout.kind = "backoff")
       ~> (loop.timeout.kind \in {"fire", "recheck"} \/ loop.circuitBreaks > 0 \/ loop.cleared)

\* The most days the month m has in any year
longestMonth(m) == IF m = 2 THEN 29 ELSE IF m \in {4, 6, 9, 11} THEN 30 ELSE 31

\* Some calendar instant is one the expression e asks for: a minute, an
\* hour and a month of its sets exist, and in one of these months a day it
\* asks for exists in some year (day d of month m exists when d is at most
\* the longest length of m; every month has a last day; over the years
\* every date of the year falls on every weekday)
someInstantMatches(e) ==
  LET fields == parseCronExpression(e)
      dayExists == \/ e.day.form = "L"
                   \/ \E m \in fields.month : \E d \in fields.dayOfMonth : d <= longestMonth(m)
      weekdayExists == fields.dayOfWeek # {}
  IN /\ fields.minute # {}
     /\ fields.hour # {}
     /\ fields.month # {}
     /\ IF e.day.form # "*" /\ e.weekday.form # "*"
          THEN dayExists \/ weekdayExists
          ELSE dayExists /\ weekdayExists

\* C40: getNextCronOccurrence always terminates (its loop never runs past
\* its cap), it raises the impossible-schedule error exactly when no
\* calendar instant matches the expression, and for an expression that some
\* instant matches it returns the next matching instant after `from`, from
\* every starting instant.
C40_ThrowsExactlyWhenImpossible ==
  calc.op = "cron" =>
    /\ calc.iterations <= MAX_ITERATIONS
    /\ calc.state = "thrown" => ~someInstantMatches(calc.schedule)
    /\ calc.state = "returned" =>
         /\ someInstantMatches(calc.schedule)
         /\ calc.result > calc.from.min
         /\ wants(calc.schedule, calc.result)
         /\ ~calc.skipped

====
